---- MODULE Spec2Model ----
(***************************************************************************)
(* Request lifecycle of the Software Heritage vault: the vault_bundle and  *)
(* vault_notif_email tables as VaultBackend                                *)
(* (swh/vault/backend.py) changes them, the RPC routes that expose it      *)
(* (swh/vault/api/server.py) and the run loop BaseVaultCooker.cook()       *)
(* (swh/vault/cookers/base.py) that drives it from a worker.               *)
(*                                                                         *)
(* A bundle key stands for one (type, object_id) pair.  Every handler of   *)
(* the server runs to completion before the next one starts (the routes    *)
(* call the backend synchronously), so a handler is one action; a cooker   *)
(* run is one action per callback it issues.                               *)
(***************************************************************************)
EXTENDS Integers, Sequences, FiniteSets, TLC

\* ---------------------------------------------------------------- domains
\* (type, object_id) pairs; k0 is an object the archive does not hold.
Keys == {"k0", "k1", "k2"}
Archived == {"k1", "k2"}
Emails == {"a@example.com", "b@example.com"}
NULL == "NULL"
\* a null task_id (the scheduler's ids start at 1) and a null timestamp
\* (the clock starts at 0)
NoTask == 0
NullTs == -1
Statuses == {"new", "pending", "done", "failed"}

\* caps on the two serial columns, so that the state space is finite
MaxBundleId == 2
MaxNotifId == 3

\* caps on the test cooker's bundle: number of chunks, bytes per chunk, and
\* the largest size limit tried
MaxChunks == 2
MaxChunkLen == 2
MaxLimit == 3

\* the clock's last tick
MaxClock == 1

VARIABLES
    vault_bundle,        \* table: rows [id, key, task_status, sticky, task_id, progress_msg,
                         \*              ts_created, ts_done, ts_last_access]
    vault_notif_email,   \* table: rows [id, email, bundle_id]
    cooker,              \* scheduler tasks in creation order, each with its cook() run
    next_bundle_id,      \* vault_bundle.id serial
    next_notif_id,       \* vault_notif_email.id serial
    sent,                \* mails handed to the SMTP server by the latest handler
    last,                \* the latest handler: [op, key, email, ok]
    client,              \* per VaultBackend instance: the call it is executing
    now,                 \* the database server's clock
    cache                \* VaultCache: the keys that have a bundle blob

vars == <<vault_bundle, vault_notif_email, cooker,
          next_bundle_id, next_notif_id, sent, last, client, now, cache>>

\* ----------------------------------------------------------- table reads
\* SELECT ... FROM vault_bundle WHERE type = %s AND object_id = %s
task_info(tbl, k) == {r \in tbl : r.key = k}

TheRow(tbl, k) == CHOOSE r \in tbl : r.key = k

\* the notification entries of the bundle stored under k
NotifsIn(notifs, bundles, k) ==
    {e \in notifs : \E r \in task_info(bundles, k) : e.bundle_id = r.id}

NotifsOf(k) == NotifsIn(vault_notif_email, vault_bundle, k)

\* vault_notif_email.bundle_id references vault_bundle(id): a delete of rows
\* that entries still reference is refused
ForeignKeyViolation(rows) ==
    \E e \in vault_notif_email : \E r \in rows : e.bundle_id = r.id

\* cooker.check_exists() of create_task: is the root object in the archive
check_exists_always(k) == TRUE

check_exists(k) == k \in Archived

\* ---------------------------------------------------------------- notifier
\* the message send_notification builds for a final status
MailFor(email, k, status, progress_msg) ==
    IF status = "done"
    THEN [to |-> email, subject |-> "Bundle ready", key |-> k,
          progress_msg |-> NULL]
    ELSE [to |-> email, subject |-> "Bundle failed", key |-> k,
          progress_msg |-> progress_msg]

\* DELETE FROM vault_notif_email WHERE id = %s
NotifDelete_keep(tbl, n_id) == tbl

NotifDelete(tbl, n_id) == {e \in tbl : e.id # n_id}

\* send_notification: RuntimeError unless the status is final, then the SMTP
\* send (which raises when smtp_ok is false), then the delete of the entry.
\* Returns the table, the mails sent so far and whether it returned normally.
send_notification_delete_first(tbl, out, n_id, email, k, status, progress_msg, smtp_ok) ==
    IF status \notin {"done", "failed"}
    THEN [notifs |-> tbl, sent |-> out, ok |-> FALSE]
    ELSE IF ~smtp_ok
    THEN [notifs |-> IF n_id = 0 THEN tbl ELSE NotifDelete(tbl, n_id),
          sent |-> out, ok |-> FALSE]
    ELSE [notifs |-> IF n_id = 0 THEN tbl ELSE NotifDelete(tbl, n_id),
          sent |-> Append(out, MailFor(email, k, status, progress_msg)),
          ok |-> TRUE]

send_notification(tbl, out, n_id, email, k, status, progress_msg, smtp_ok) ==
    IF status \notin {"done", "failed"}
    THEN [notifs |-> tbl, sent |-> out, ok |-> FALSE]
    ELSE IF ~smtp_ok
    THEN [notifs |-> tbl, sent |-> out, ok |-> FALSE]
    ELSE [notifs |-> IF n_id = 0 THEN tbl ELSE NotifDelete(tbl, n_id),
          sent |-> Append(out, MailFor(email, k, status, progress_msg)),
          ok |-> TRUE]

\* SELECT vault_notif_email.id, email, task_status, progress_msg
\* FROM vault_notif_email INNER JOIN vault_bundle ON bundle_id = vault_bundle.id
\* WHERE vault_bundle.type = %s AND vault_bundle.object_id = %s
SelectNotifs_all(k) ==
    {[id |-> e.id, email |-> e.email, task_status |-> r.task_status,
      progress_msg |-> r.progress_msg] :
        <<e, r>> \in {p \in vault_notif_email \X vault_bundle :
                          p[1].bundle_id = p[2].id}}

SelectNotifs(k) ==
    {[id |-> e.id, email |-> e.email, task_status |-> r.task_status,
      progress_msg |-> r.progress_msg] :
        <<e, r>> \in {p \in vault_notif_email \X vault_bundle :
                          p[1].bundle_id = p[2].id /\ p[2].key = k}}

\* the orders in which the cursor may yield a result set (no ORDER BY)
Orders(S) ==
    {s \in [1..Cardinality(S) -> S] : \A x \in S : \E i \in DOMAIN s : s[i] = x}

\* the for loop of send_all_notifications: the loop stops at the first call
\* that raises; every call before it has committed its delete.
RECURSIVE SendLoop(_, _, _, _, _, _)
SendLoop(tbl, out, k, order, i, fail_at) ==
    IF i > Len(order)
    THEN [notifs |-> tbl, sent |-> out, ok |-> TRUE]
    ELSE LET d == order[i]
             r == send_notification(tbl, out, d.id, d.email, k,
                                    d.task_status, d.progress_msg, i # fail_at)
         IN  IF r.ok THEN SendLoop(r.notifs, r.sent, k, order, i + 1, fail_at)
                     ELSE r

\* ---------------------------------------------------------------- handlers
\* DEFAULT_CONFIG['max_bundle_size'] of the cookers: 2 ** 29, 512 MiB
DEFAULT_max_bundle_size == 536870912

\* the value of NOW() in a statement: the clock's, never null
NOW == now

\* INSERT INTO vault_bundle (type, object_id, sticky): the other columns take
\* their defaults (status new, no task, no progress, ts_created and
\* ts_last_access now(), ts_done null)
NewRow(id, k, sticky) ==
    [id |-> id, key |-> k, task_status |-> "new", sticky |-> sticky,
     task_id |-> NoTask, progress_msg |-> NULL, ts_created |-> NOW,
     ts_done |-> NullTs, ts_last_access |-> NOW]

\* UPDATE vault_bundle SET task_id = %s WHERE type = %s AND object_id = %s
SetTaskId(tbl, k, task_id) ==
    {IF r.key = k THEN [r EXCEPT !.task_id = task_id] ELSE r : r \in tbl}

\* the one-shot task _send_task hands to the scheduler; its id is its rank
\* among the tasks created so far
NewTask(k) ==
    [key |-> k, pc |-> "queued", calls |-> <<>>, exc |-> NULL,
     max_bundle_size |-> DEFAULT_max_bundle_size]

\* Every handler leaves the scheduler's tasks alone except cook_request.

\* VaultBackend.set_status, route /set_status
set_status_always_stamps(k, status) ==
    /\ vault_bundle' = {IF r.key = k
                        THEN [r EXCEPT !.task_status = status,
                                       !.ts_done = NOW]
                        ELSE r : r \in vault_bundle}
    /\ sent' = <<>>
    /\ last' = [op |-> "set_status", key |-> k, email |-> NULL, ok |-> TRUE]
    /\ UNCHANGED <<vault_notif_email, next_bundle_id, next_notif_id>>

set_status(k, status) ==
    /\ vault_bundle' = {IF r.key = k
                        THEN [r EXCEPT !.task_status = status,
                                       !.ts_done = IF status = "done"
                                                   THEN NOW ELSE @]
                        ELSE r : r \in vault_bundle}
    /\ sent' = <<>>
    /\ last' = [op |-> "set_status", key |-> k, email |-> NULL, ok |-> TRUE]
    /\ UNCHANGED <<vault_notif_email, next_bundle_id, next_notif_id>>

\* VaultBackend.set_progress, route /set_progress
set_progress(k, progress) ==
    /\ vault_bundle' = {IF r.key = k THEN [r EXCEPT !.progress_msg = progress]
                                     ELSE r : r \in vault_bundle}
    /\ sent' = <<>>
    /\ last' = [op |-> "set_progress", key |-> k, email |-> NULL, ok |-> TRUE]
    /\ UNCHANGED <<vault_notif_email, next_bundle_id, next_notif_id>>

\* VaultBackend.send_all_notifications, route /send_notif
send_all_notifications(k) ==
    \E order \in Orders(SelectNotifs(k)) :
      \E fail_at \in 0..Len(order) :
        LET r == SendLoop(vault_notif_email, <<>>, k, order, 1, fail_at) IN
        /\ vault_notif_email' = r.notifs
        /\ sent' = r.sent
        /\ last' = [op |-> "send_all_notifications", key |-> k,
                    email |-> NULL, ok |-> r.ok]
        /\ UNCHANGED <<vault_bundle, next_bundle_id, next_notif_id>>

\* line 212 of cook_request: is there a failed bundle entry
IsFailed_any(info) == info # {}

IsFailed_never(info) == FALSE

IsFailed(info) == info # {} /\ \A r \in info : r.task_status = "failed"

\* line 228 of cook_request: is the task already done
AlreadyDone_never(info) == FALSE

AlreadyDone(info) == info # {} /\ \A r \in info : r.task_status = "done"

\* VaultBackend.cook_request with create_task, add_notif_email and the direct
\* send_notification inlined, route /cook.  An exception leaves the tables as
\* they were: the delete of a failed row that notification entries still
\* reference is refused by the foreign key, create_task raises NotFoundExc
\* before its insert, and a failed SMTP send comes before any write.
cook_request_sets_sticky(k, email, sticky, smtp_ok) ==
    LET info0   == task_info(vault_bundle, k)
        failed  == IsFailed(info0)
        fk_err  == failed /\ ForeignKeyViolation(info0)
        info    == IF failed THEN {} ELSE info0
        tbl1    == IF failed THEN vault_bundle \ info0 ELSE vault_bundle
        create  == info = {}
        task_id == Len(cooker) + 1
        row     == NewRow(next_bundle_id, k, sticky)
        tbl2    == IF create THEN SetTaskId(tbl1 \cup {row}, k, task_id)
                   ELSE {IF r.key = k THEN [r EXCEPT !.sticky = sticky]
                                      ELSE r : r \in tbl1}
        direct  == email # NULL /\ AlreadyDone(info)
        queue   == email # NULL /\ ~AlreadyDone(info)
        mail    == send_notification(vault_notif_email, <<>>, 0, email, k,
                                     IF info = {} THEN NULL
                                     ELSE (TheRow(info, k)).task_status,
                                     NULL, smtp_ok)
        entry   == [id |-> next_notif_id, email |-> email,
                    bundle_id |-> (TheRow(tbl2, k)).id]
        raises  == \/ fk_err
                   \/ create /\ ~check_exists(k)
                   \/ direct /\ ~mail.ok
    IN
    /\ create => next_bundle_id <= MaxBundleId
    /\ queue => next_notif_id <= MaxNotifId
    /\ smtp_ok \/ direct
    /\ last' = [op |-> "cook_request", key |-> k, email |-> email,
                ok |-> ~raises]
    /\ IF raises
       THEN /\ sent' = <<>>
            /\ UNCHANGED <<vault_bundle, vault_notif_email, cooker,
                           next_bundle_id, next_notif_id>>
       ELSE /\ vault_bundle' = tbl2
            /\ next_bundle_id' = IF create THEN next_bundle_id + 1
                                 ELSE next_bundle_id
            /\ cooker' = IF create
                         THEN Append(cooker, NewTask(k))
                         ELSE cooker
            /\ sent' = IF direct THEN mail.sent ELSE <<>>
            /\ vault_notif_email' = IF queue THEN vault_notif_email \cup {entry}
                                    ELSE vault_notif_email
            /\ next_notif_id' = IF queue THEN next_notif_id + 1
                                ELSE next_notif_id

cook_request(k, email, sticky, smtp_ok) ==
    LET info0   == task_info(vault_bundle, k)
        failed  == IsFailed(info0)
        fk_err  == failed /\ ForeignKeyViolation(info0)
        info    == IF failed THEN {} ELSE info0
        tbl1    == IF failed THEN vault_bundle \ info0 ELSE vault_bundle
        create  == info = {}
        task_id == Len(cooker) + 1
        row     == NewRow(next_bundle_id, k, sticky)
        tbl2    == IF create THEN SetTaskId(tbl1 \cup {row}, k, task_id)
                             ELSE tbl1
        direct  == email # NULL /\ AlreadyDone(info)
        queue   == email # NULL /\ ~AlreadyDone(info)
        mail    == send_notification(vault_notif_email, <<>>, 0, email, k,
                                     IF info = {} THEN NULL
                                     ELSE (TheRow(info, k)).task_status,
                                     NULL, smtp_ok)
        entry   == [id |-> next_notif_id, email |-> email,
                    bundle_id |-> (TheRow(tbl2, k)).id]
        raises  == \/ fk_err
                   \/ create /\ ~check_exists(k)
                   \/ direct /\ ~mail.ok
    IN
    /\ create => next_bundle_id <= MaxBundleId
    /\ queue => next_notif_id <= MaxNotifId
    /\ smtp_ok \/ direct
    /\ last' = [op |-> "cook_request", key |-> k, email |-> email,
                ok |-> ~raises]
    /\ IF raises
       THEN /\ sent' = <<>>
            /\ UNCHANGED <<vault_bundle, vault_notif_email, cooker,
                           next_bundle_id, next_notif_id>>
       ELSE /\ vault_bundle' = tbl2
            /\ next_bundle_id' = IF create THEN next_bundle_id + 1
                                 ELSE next_bundle_id
            /\ cooker' = IF create
                         THEN Append(cooker, NewTask(k))
                         ELSE cooker
            /\ sent' = IF direct THEN mail.sent ELSE <<>>
            /\ vault_notif_email' = IF queue THEN vault_notif_email \cup {entry}
                                    ELSE vault_notif_email
            /\ next_notif_id' = IF queue THEN next_notif_id + 1
                                ELSE next_notif_id

\* ------------------------------------------- cook_request, statement by statement
\* Every statement of cook_request and create_task is followed by a commit
\* (the autocommit wrapper of each nested call, self.commit() at lines 187
\* and 219), so between two statements another VaultBackend instance on
\* the same database (another server process, the command line) may run
\* its own.  A client is one instance; its record holds the call it is in,
\* the local variable info and, once it has left the call, the exception
\* that ended it.
Clients == {1, 2}

\* what the two instances are asked for: the same bundle, with or without
\* an address to notify
TxnKey == "k1"
TxnEmails == {NULL, "a@example.com"}

Idle ==
    [pc |-> "idle", op |-> NULL, key |-> NULL, email |-> NULL, info |-> {},
     task_id |-> NULL, replacing |-> FALSE, exc |-> NULL]

\* revision_gitfast bundles; g0 is a revision the archive does not hold.
\* Every other key is a directory bundle.
Revisions == {"g0", "g1"}
ArchivedRevisions == {"g1"}

\* the bundle type of a key, which selects the cooker class (get_cooker)
ObjType(k) == IF k \in Revisions THEN "revision_gitfast" ELSE "directory"

\* RevisionGitfastCooker.check_exists: raises ValueError when the revision is
\* missing; otherwise the function body ends, which returns None
RevisionGitfast_check_exists(k) ==
    IF k \notin ArchivedRevisions
    THEN [exc |-> "ValueError", ret |-> "None"]
    ELSE [exc |-> NULL, ret |-> "None"]

\* cooker.check_exists() of create_task, line 181, by cooker class
cooker_check_exists(k) ==
    IF ObjType(k) = "revision_gitfast"
    THEN RevisionGitfast_check_exists(k)
    ELSE [exc |-> NULL, ret |-> IF check_exists(k) THEN "True" ELSE "False"]

\* the truth value Python gives a returned value in `if not ...`
Truthy(v) == v = "True"

\* the unique constraint on vault_bundle (type, object_id); psycopg2 reports
\* a violated constraint as an IntegrityError of the constraint's kind
UniqueViolation(tbl, k) == task_info(tbl, k) # {}

\* the call of client c ends with exception exc: the wrapper rolls back
\* (nothing is uncommitted) and re-raises
Raise(c, exc) ==
    client' = [client EXCEPT ![c] = [Idle EXCEPT !.op = client[c].op,
                                                 !.key = client[c].key,
                                                 !.replacing = client[c].replacing,
                                                 !.exc = exc]]

\* cook_request, lines 226-233 are skipped when no email was given
AfterCreate(c) == IF client[c].email # NULL THEN "email" ELSE "return"

\* cook_request, line 209: info = self.task_info(obj_type, obj_id)
TxnCookRequest(c) ==
    /\ client[c].pc = "idle"
    /\ \E k \in {TxnKey}, email \in TxnEmails :
         LET info == task_info(vault_bundle, k)
             failed == IsFailed(info)
         IN  client' = [client EXCEPT ![c] =
                 [Idle EXCEPT !.op = "cook_request", !.key = k,
                              !.email = email, !.info = info,
                              !.replacing = failed,
                              !.pc = IF failed THEN "delete"
                                     ELSE IF info = {} THEN "insert"
                                     ELSE IF email # NULL THEN "email"
                                     ELSE "return"]]
    /\ UNCHANGED <<vault_bundle, vault_notif_email, cooker, next_bundle_id,
                   next_notif_id, sent, last>>

\* cook_request, lines 212-220: DELETE FROM vault_bundle, commit, info = None
TxnDelete(c) ==
    /\ client[c].pc = "delete"
    /\ LET rows == task_info(vault_bundle, client[c].key) IN
       IF ForeignKeyViolation(rows)
       THEN Raise(c, "ForeignKeyViolation") /\ UNCHANGED vault_bundle
       ELSE /\ vault_bundle' = vault_bundle \ rows
            /\ client' = [client EXCEPT ![c].info = {}, ![c].pc = "insert"]
    /\ UNCHANGED <<vault_notif_email, cooker, next_bundle_id, next_notif_id,
                   sent, last>>

\* create_task, lines 174-187: check_exists, which may raise and whose
\* result is tested for truth, INSERT INTO vault_bundle, commit
create_task_insert_upsert(c) ==
    IF (cooker_check_exists(client[c].key)).exc # NULL
    THEN Raise(c, (cooker_check_exists(client[c].key)).exc)
         /\ UNCHANGED <<vault_bundle, next_bundle_id>>
    ELSE IF ~Truthy((cooker_check_exists(client[c].key)).ret)
    THEN Raise(c, "NotFoundExc") /\ UNCHANGED <<vault_bundle, next_bundle_id>>
    ELSE /\ next_bundle_id <= MaxBundleId
         /\ vault_bundle' =
                (vault_bundle \ task_info(vault_bundle, client[c].key))
                    \cup {NewRow(next_bundle_id, client[c].key, FALSE)}
         /\ next_bundle_id' = next_bundle_id + 1
         /\ client' = [client EXCEPT ![c].pc = "send_task"]

create_task_insert_ignore(c) ==
    IF (cooker_check_exists(client[c].key)).exc # NULL
    THEN Raise(c, (cooker_check_exists(client[c].key)).exc)
         /\ UNCHANGED <<vault_bundle, next_bundle_id>>
    ELSE IF ~Truthy((cooker_check_exists(client[c].key)).ret)
    THEN Raise(c, "NotFoundExc") /\ UNCHANGED <<vault_bundle, next_bundle_id>>
    ELSE IF UniqueViolation(vault_bundle, client[c].key)
    THEN /\ client' = [client EXCEPT ![c].pc = "send_task"]
         /\ UNCHANGED <<vault_bundle, next_bundle_id>>
    ELSE /\ next_bundle_id <= MaxBundleId
         /\ vault_bundle' = vault_bundle
                \cup {NewRow(next_bundle_id, client[c].key, FALSE)}
         /\ next_bundle_id' = next_bundle_id + 1
         /\ client' = [client EXCEPT ![c].pc = "send_task"]

create_task_insert(c) ==
    IF (cooker_check_exists(client[c].key)).exc # NULL
    THEN Raise(c, (cooker_check_exists(client[c].key)).exc)
         /\ UNCHANGED <<vault_bundle, next_bundle_id>>
    ELSE IF ~Truthy((cooker_check_exists(client[c].key)).ret)
    THEN Raise(c, "NotFoundExc") /\ UNCHANGED <<vault_bundle, next_bundle_id>>
    ELSE IF UniqueViolation(vault_bundle, client[c].key)
    THEN Raise(c, "UniqueViolation")
         /\ UNCHANGED <<vault_bundle, next_bundle_id>>
    ELSE /\ next_bundle_id <= MaxBundleId
         /\ vault_bundle' = vault_bundle
                \cup {NewRow(next_bundle_id, client[c].key, FALSE)}
         /\ next_bundle_id' = next_bundle_id + 1
         /\ client' = [client EXCEPT ![c].pc = "send_task"]

\* cook_request, line 223, or a direct call of create_task
TxnInsert(c) ==
    /\ client[c].pc = "insert"
    /\ create_task_insert(c)
    /\ UNCHANGED <<vault_notif_email, cooker, next_notif_id, sent, last>>

\* create_task called on its own, as the command line and the tests do
TxnCreateTask(c) ==
    /\ client[c].pc = "idle"
    /\ \E k \in {TxnKey, "k0"} \cup Revisions :
         client' = [client EXCEPT ![c] =
             [Idle EXCEPT !.op = "create_task", !.key = k, !.pc = "insert"]]
    /\ UNCHANGED <<vault_bundle, vault_notif_email, cooker, next_bundle_id,
                   next_notif_id, sent, last>>

\* create_task, line 189: task_id = self._send_task(args); the scheduler
\* may refuse (sched_ok false), and then create_tasks raises
TxnSendTask(c) ==
    /\ client[c].pc = "send_task"
    /\ \E sched_ok \in BOOLEAN :
         IF sched_ok
         THEN /\ cooker' = Append(cooker, NewTask(client[c].key))
              /\ client' = [client EXCEPT ![c].task_id = Len(cooker) + 1,
                                          ![c].pc = "update"]
         ELSE Raise(c, "SchedulerError") /\ UNCHANGED cooker
    /\ UNCHANGED <<vault_bundle, vault_notif_email, next_bundle_id,
                   next_notif_id, sent, last>>

\* create_task, lines 191-194: UPDATE vault_bundle SET task_id, and the
\* commit of the wrapper; a direct call of create_task returns here
TxnUpdate(c) ==
    /\ client[c].pc = "update"
    /\ vault_bundle' = SetTaskId(vault_bundle, client[c].key, client[c].task_id)
    /\ client' = IF client[c].op = "create_task"
                 THEN [client EXCEPT ![c] = [Idle EXCEPT !.op = "create_task",
                                                  !.key = client[c].key]]
                 ELSE [client EXCEPT ![c].pc = AfterCreate(c)]
    /\ UNCHANGED <<vault_notif_email, cooker, next_bundle_id, next_notif_id,
                   sent, last>>

\* cook_request, lines 226-233: the direct mail if info (read at line 209)
\* says done, else add_notif_email, whose subquery finds the row's id now;
\* bundle_id is not null, so the insert fails when the row is gone
TxnEmail(c) ==
    /\ client[c].pc = "email"
    /\ IF AlreadyDone(client[c].info)
       THEN \E smtp_ok \in BOOLEAN :
              LET r == send_notification(vault_notif_email, <<>>, 0,
                           client[c].email, client[c].key,
                           (TheRow(client[c].info, client[c].key)).task_status,
                           NULL, smtp_ok)
              IN  /\ sent' = r.sent
                  /\ IF r.ok THEN client' = [client EXCEPT ![c].pc = "return"]
                             ELSE Raise(c, "SMTPException")
                  /\ UNCHANGED <<vault_notif_email, next_notif_id>>
       ELSE LET rows == task_info(vault_bundle, client[c].key) IN
            IF rows = {}
            THEN /\ Raise(c, "NotNullViolation")
                 /\ UNCHANGED <<vault_notif_email, next_notif_id, sent>>
            ELSE /\ next_notif_id <= MaxNotifId
                 /\ vault_notif_email' = vault_notif_email \cup
                        {[id |-> next_notif_id, email |-> client[c].email,
                          bundle_id |-> (TheRow(rows, client[c].key)).id]}
                 /\ next_notif_id' = next_notif_id + 1
                 /\ client' = [client EXCEPT ![c].pc = "return"]
                 /\ UNCHANGED sent
    /\ UNCHANGED <<vault_bundle, cooker, next_bundle_id, last>>

\* cook_request, lines 235-236: info = self.task_info(...); return info
TxnReturn(c) ==
    /\ client[c].pc = "return"
    /\ client' = [client EXCEPT ![c] =
           [Idle EXCEPT !.op = "cook_request", !.key = client[c].key,
                        !.info = task_info(vault_bundle, client[c].key)]]
    /\ UNCHANGED <<vault_bundle, vault_notif_email, cooker, next_bundle_id,
                   next_notif_id, sent, last>>

\* ------------------------------------------------ retrieval and expiration
\* VaultCache: is_cached, get (the blob written under the key, which stands
\* for its bytes), add and delete
cache_is_cached(c, k) == k \in c

cache_get(c, k) == k

cache_add(c, k) == c \cup {k}

cache_delete(c, k) == c \ {k}

\* VaultBackend.is_available
is_available_cached(tbl, c, k) == cache_is_cached(c, k)

is_available(tbl, c, k) ==
    /\ task_info(tbl, k) # {}
    /\ \A r \in task_info(tbl, k) : r.task_status = "done"
    /\ cache_is_cached(c, k)

\* UPDATE vault_bundle SET ts_last_access = NOW()
\* WHERE type = %s AND object_id = %s
UpdateAccessTs_epoch(tbl, k) ==
    {IF r.key = k THEN [r EXCEPT !.ts_last_access = 0] ELSE r : r \in tbl}

UpdateAccessTs(tbl, k) ==
    {IF r.key = k THEN [r EXCEPT !.ts_last_access = NOW] ELSE r : r \in tbl}

\* VaultBackend.update_access_ts
update_access_ts(k) ==
    /\ vault_bundle' = UpdateAccessTs(vault_bundle, k)
    /\ sent' = <<>>
    /\ last' = [op |-> "update_access_ts", key |-> k, email |-> NULL,
                ok |-> TRUE]
    /\ UNCHANGED <<vault_notif_email, next_bundle_id, next_notif_id, cache>>

\* route /fetch: HTTPNotFound unless is_available, else VaultBackend.fetch,
\* which tests is_available again, stamps the access and returns the blob
vault_fetch(k) ==
    LET available == is_available(vault_bundle, cache, k) IN
    /\ vault_bundle' = IF available THEN UpdateAccessTs(vault_bundle, k)
                                    ELSE vault_bundle
    /\ sent' = <<>>
    /\ last' = [op |-> "fetch", key |-> k, email |-> NULL, ok |-> available,
                ret |-> IF available THEN cache_get(cache, k) ELSE NULL]
    /\ UNCHANGED <<vault_notif_email, next_bundle_id, next_notif_id, cache>>

\* route /put_bundle: cache.add(obj_type, obj_id, content)
put_bundle(k) ==
    /\ cache' = cache_add(cache, k)
    /\ sent' = <<>>
    /\ last' = [op |-> "put_bundle", key |-> k, email |-> NULL, ok |-> TRUE]
    /\ UNCHANGED <<vault_bundle, vault_notif_email, next_bundle_id,
                   next_notif_id>>

\* the columns an expiration may go by
ExpireBy == {"created", "done", "last_access"}

\* the column ts_{by} of a row
TsOf(r, by) ==
    IF by = "created" THEN r.ts_created
    ELSE IF by = "done" THEN r.ts_done
    ELSE r.ts_last_access

\* ORDER BY, ascending: nulls sort after every value
TsLeq(a, b) == b = NullTs \/ (a # NullTs /\ a <= b)

\* SELECT ctid FROM vault_bundle WHERE sticky = false
NotSticky_all(tbl) == tbl

NotSticky(tbl) == {r \in tbl : ~r.sticky}

\* ... ORDER BY ts_{by} LIMIT n: the result sets the query may have (rows
\* with equal timestamps come in any order)
OldestRows_any(tbl, by, n) ==
    {S \in SUBSET NotSticky(tbl) :
        \/ Cardinality(S) = n
        \/ Cardinality(S) < n /\ S = NotSticky(tbl)}

OldestRows(tbl, by, n) ==
    {S \in SUBSET NotSticky(tbl) :
        /\ \/ Cardinality(S) = n
           \/ Cardinality(S) < n /\ S = NotSticky(tbl)
        /\ \A r \in S : \A q \in NotSticky(tbl) \ S :
               TsLeq(TsOf(r, by), TsOf(q, by))}

\* ... AND ts_{by} <= %s: a null timestamp compares as unknown
RowsUntil(tbl, by, date) ==
    {r \in NotSticky(tbl) : TsOf(r, by) # NullTs /\ TsOf(r, by) <= date}

\* the for loop of _cache_expire over the deleted rows: cache.delete of
\* each; the loop stops at the first call that raises
RECURSIVE DeleteLoop(_, _, _, _)
DeleteLoop(c, order, i, fail_at) ==
    IF i > Len(order) THEN [cache |-> c, ok |-> TRUE]
    ELSE IF i = fail_at THEN [cache |-> c, ok |-> FALSE]
    ELSE DeleteLoop(cache_delete(c, order[i].key), order, i + 1, fail_at)

\* VaultBackend._cache_expire on the rows its subquery selects: the DELETE
\* is refused if notification entries reference a row; the blobs are
\* deleted while the DELETE is uncommitted, so an exception of cache.delete
\* rolls the DELETE back (wrapper, lines 80-84) and the commit comes last
_cache_expire(rows, op) ==
    \E order \in Orders(rows) :
      \E fail_at \in 0..Len(order) :
        LET fk == ForeignKeyViolation(rows)
            r  == DeleteLoop(cache, order, 1, fail_at)
        IN  /\ fk => fail_at = 0
            /\ vault_bundle' = IF fk \/ ~r.ok THEN vault_bundle
                                ELSE vault_bundle \ rows
            /\ cache' = IF fk THEN cache ELSE r.cache
            /\ sent' = <<>>
            /\ last' = [op EXCEPT !.ok = ~fk /\ r.ok]
            /\ UNCHANGED <<vault_notif_email, next_bundle_id, next_notif_id>>

\* VaultBackend.cache_expire_oldest
cache_expire_oldest(n, by) ==
    \E rows \in OldestRows(vault_bundle, by, n) :
        _cache_expire(rows, [op |-> "cache_expire_oldest", key |-> NULL,
                             email |-> NULL, ok |-> TRUE, n |-> n, by |-> by])

\* VaultBackend.cache_expire_until
cache_expire_until(date, by) ==
    _cache_expire(RowsUntil(vault_bundle, by, date),
                  [op |-> "cache_expire_until", key |-> NULL, email |-> NULL,
                   ok |-> TRUE, date |-> date, by |-> by])

\* ------------------------------------------------------------ cooker runs
\* BytesIOBundleSizeLimit.__init__ hands the new object itself to
\* io.BytesIO.__init__ as initial_bytes; BytesIO does not support the buffer
\* protocol, so the constructor ends with TypeError.
BytesIOBundleSizeLimit_init_ok == FALSE

\* size_limit=None: no limit.  Sizes are numbers of bytes, from 0 up.
NoLimit == -1

\* BytesIOBundleSizeLimit(size_limit=...): the object the caller gets, or the
\* exception; self.size_limit is assigned after the constructor of BytesIO
BytesIOBundleSizeLimit_init(size_limit) ==
    IF BytesIOBundleSizeLimit_init_ok
    THEN [nbytes |-> 0, size_limit |-> size_limit, exc |-> NULL]
    ELSE [nbytes |-> 0, size_limit |-> NoLimit, exc |-> "TypeError"]

\* BytesIOBundleSizeLimit.write(chunk), chunk given by its length
BytesIOBundleSizeLimit_write(f, chunk) ==
    IF f.size_limit # NoLimit /\ f.nbytes + chunk > f.size_limit
    THEN [f EXCEPT !.exc = "BundleTooLargeError"]
    ELSE [f EXCEPT !.nbytes = @ + chunk]

\* prepare_bundle of the test cooker: for chunk in chunks: self.write(chunk);
\* the first write that raises ends the loop
RECURSIVE WriteChunks(_, _, _)
WriteChunks(f, chunks, i) ==
    IF i > Len(chunks) \/ f.exc # NULL
    THEN f
    ELSE WriteChunks(BytesIOBundleSizeLimit_write(f, chunks[i]), chunks, i + 1)

\* cook(), lines 112-114, seen from the sink: it is built with
\* size_limit=max_bundle_size, then prepare_bundle writes to it
SinkSession(max_bundle_size, chunks) ==
    LET f == BytesIOBundleSizeLimit_init(max_bundle_size)
    IN  IF f.exc # NULL THEN f ELSE WriteChunks(f, chunks, 1)

\* cook(), line 109: set_status(pending)
CookSetPending(t) ==
    /\ cooker[t].pc = "queued"
    /\ set_status(cooker[t].key, "pending")
    /\ cooker' = [cooker EXCEPT ![t].pc = "status_set",
            ![t].calls = Append(@, [fn |-> "set_status", arg |-> "pending"])]

\* cook(), line 110: set_progress('Processing...')
CookSetProgress(t) ==
    /\ cooker[t].pc = "status_set"
    /\ set_progress(cooker[t].key, "Processing...")
    /\ cooker' = [cooker EXCEPT ![t].pc = "progress_set",
            ![t].calls = Append(@, [fn |-> "set_progress",
                                    arg |-> "Processing..."])]

\* cook(), line 112: the sink is built before the try statement, so the
\* TypeError of its constructor ends the run: no handler and no finally
\* clause is in effect yet.
CookNewSink(t) ==
    /\ cooker[t].pc = "progress_set"
    /\ (BytesIOBundleSizeLimit_init(cooker[t].max_bundle_size)).exc # NULL
    /\ cooker' = [cooker EXCEPT ![t].pc = "ended",
            ![t].exc = (BytesIOBundleSizeLimit_init(
                            cooker[t].max_bundle_size)).exc]
    /\ UNCHANGED <<vault_bundle, vault_notif_email, next_bundle_id,
                   next_notif_id, sent, last>>

\* ------------------------------------------------------- git-bare cooker
\* A small archive.  Revision r2 merges r1 and r0, r1 follows r0; s1 is a
\* revision of another repository.  Directory d2 (of r2) holds c0 and d1;
\* d1 (of r1) holds c1 and d0; when the repository has a submodule (since
\* r1), d2 and d1 each hold an entry of type rev for s1 as well; d0 (of r0)
\* and ds (of s1) hold c0.  Release
\* t1 targets r1 and t2 targets t1; snapshot p1 has branches to r2 and t1.
GitRevisions == {"r0", "r1", "r2", "s1"}
GitDirectories == {"d0", "d1", "d2", "ds"}
GitReleases == {"t1", "t2"}
GitSnapshots == {"p1"}

RevisionParents(r) ==
    CASE r = "r2" -> <<"r1", "r0">>
      [] r = "r1" -> <<"r0">>
      [] OTHER    -> <<>>

RevisionDirectory(r) ==
    CASE r = "r2" -> "d2"
      [] r = "r1" -> "d1"
      [] r = "r0" -> "d0"
      [] OTHER    -> "ds"

\* storage.directory_ls(obj_id, recursive=False)
DirectoryEntries(d, submodule) ==
    CASE d = "d2" -> <<[type |-> "file", target |-> "c0"],
                       [type |-> "dir", target |-> "d1"]>>
                     \o (IF submodule
                         THEN <<[type |-> "rev", target |-> "s1"]>>
                         ELSE <<>>)
      [] d = "d1" -> <<[type |-> "file", target |-> "c1"],
                       [type |-> "dir", target |-> "d0"]>>
                     \o (IF submodule
                         THEN <<[type |-> "rev", target |-> "s1"]>>
                         ELSE <<>>)
      [] OTHER    -> <<[type |-> "file", target |-> "c0"]>>

\* the root objects a bundle is asked for; r9 and d9 are not in storage
GitRoots ==
    {[obj_type |-> "revision", obj_id |-> r] : r \in {"r0", "r1", "r2", "r9"}}
    \cup {[obj_type |-> "directory", obj_id |-> d] : d \in {"d0", "d1", "d2", "d9"}}
    \cup {[obj_type |-> "release", obj_id |-> x] : x \in GitReleases}
    \cup {[obj_type |-> "snapshot", obj_id |-> x] : x \in GitSnapshots}

\* the states of content c1 (c0 is visible): visible; hidden (found by
\* content_find, data in the object storage); absent (skipped: content_find
\* finds nothing); missing (found, but content_get_data returns None)
ContentStatuses == {"visible", "hidden", "absent", "missing"}

\* self.graph: no graph service, one that knows every revision, or one
\* exported before r2 and s1 were archived
GraphModes == {"none", "full", "outdated"}

GraphNodes(graph) ==
    IF graph = "full" THEN GitRevisions
    ELSE IF graph = "outdated" THEN {"r0", "r1"}
    ELSE {}

\* the revisions reachable from r through parents, r included
RECURSIVE RevisionAncestors(_)
RevisionAncestors(r) ==
    {r} \cup UNION {RevisionAncestors(RevisionParents(r)[i]) :
                        i \in DOMAIN RevisionParents(r)}

\* DFSRevisionsWalker(storage, obj_id): the history of r, children first
RevisionLog(r) ==
    LET InHistory(x) == x \in RevisionAncestors(r)
    IN  SelectSeq(<<"r2", "r1", "r0", "s1">>, InHistory)

\* graph.visit_nodes(swhid, edges="rev:rev"): the same history, as the graph
\* knows it
VisitNodes(graph, r) ==
    LET Known(x) == x \in GraphNodes(graph)
    IN  SelectSeq(RevisionLog(r), Known)

\* GitBareCooker.check_exists: a truth value, or the exception
GitBare_check_exists(obj_type, obj_id) ==
    IF obj_type = "revision"
    THEN [exc |-> NULL,
          ret |-> IF obj_id \in GitRevisions THEN "True" ELSE "False"]
    ELSE IF obj_type = "directory"
    THEN [exc |-> NULL,
          ret |-> IF obj_id \in GitDirectories THEN "True" ELSE "False"]
    ELSE [exc |-> "NotImplementedError", ret |-> "None"]

\* write_object: the object file is opened for writing and written, whether
\* it exists or not; writes lists the calls in order
write_object(st, obj_id) ==
    [st EXCEPT !.written = @ \cup {obj_id}, !.writes = Append(@, obj_id)]

\* In the operators below st is the state of a walk: the objects written
\* so far and the exception under way, if any; a statement reached with an
\* exception under way does nothing.  t is the cooker.

\* load_content: content_find(...)[0] raises IndexError on an empty result,
\* len(content) raises TypeError on None; any content found with its data
\* is written as a blob
load_content(st, obj_id, t) ==
    IF st.exc # NULL \/ obj_id \in st.written THEN st
    ELSE LET status == IF obj_id = "c1" THEN t.content_status ELSE "visible"
         IN  IF status = "absent" THEN [st EXCEPT !.exc = "IndexError"]
             ELSE IF status = "missing" THEN [st EXCEPT !.exc = "TypeError"]
             ELSE write_object(st, obj_id)

RECURSIVE load_revision_subgraph(_, _, _)
RECURSIVE load_directory_subgraph(_, _, _)
RECURSIVE LoadEntries(_, _, _, _)
RECURSIVE LoadRevisions(_, _, _, _)

\* the for loop of load_directory_subgraph over directory["entries"]
LoadEntries(st, entries, i, t) ==
    IF i > Len(entries) \/ st.exc # NULL THEN st
    ELSE LET e == entries[i]
             st1 == IF e.type = "file" THEN load_content(st, e.target, t)
                    ELSE IF e.type = "dir"
                    THEN load_directory_subgraph(st, e.target, t)
                    ELSE load_revision_subgraph(st, e.target, t)
         IN  LoadEntries(st1, entries, i + 1, t)

\* load_directory_subgraph, with load_directory_node
load_directory_subgraph(st, obj_id, t) ==
    IF st.exc # NULL \/ obj_id \in st.written THEN st
    ELSE LoadEntries(write_object(st, obj_id),
                     DirectoryEntries(obj_id, t.submodule), 1, t)

\* the loops of load_revision_subgraph (lines 198-200) and of
\* load_revisions_and_directory_subgraphs (lines 206-208)
LoadRevisions(st, revisions, i, t) ==
    IF i > Len(revisions) \/ st.exc # NULL THEN st
    ELSE LoadRevisions(
             load_directory_subgraph(write_object(st, revisions[i]),
                                     RevisionDirectory(revisions[i]), t),
             revisions, i + 1, t)

\* load_revision_subgraph: the graph if there is one and it knows the
\* revision (GraphArgumentException otherwise), else the storage walk
load_revision_subgraph(st, obj_id, t) ==
    IF st.exc # NULL THEN st
    ELSE IF t.graph # "none" /\ obj_id \in GraphNodes(t.graph)
    THEN LoadRevisions([st EXCEPT !.graph_used = TRUE],
                       VisitNodes(t.graph, obj_id), 1, t)
    ELSE LoadRevisions([st EXCEPT !.log_used = TRUE],
                       RevisionLog(obj_id), 1, t)

\* load_subgraph
load_subgraph(st, obj_type, obj_id, t) ==
    IF obj_type = "revision" THEN load_revision_subgraph(st, obj_id, t)
    ELSE IF obj_type = "directory" THEN load_directory_subgraph(st, obj_id, t)
    ELSE [st EXCEPT !.exc = "NotImplementedError"]

\* write_refs: refs/heads/master is the root revision, or a synthetic
\* revision written for a root directory
write_refs(st, t) ==
    IF st.exc # NULL THEN st
    ELSE IF t.obj_type = "directory"
    THEN [write_object(st, "synthetic") EXCEPT !.head = "synthetic"]
    ELSE IF t.obj_type = "revision" THEN [st EXCEPT !.head = t.obj_id]
    ELSE [st EXCEPT !.exc = "AssertionError"]

\* init_git: an empty repository, nothing loaded yet
init_git ==
    [written |-> {}, writes |-> <<>>, exc |-> NULL, head |-> NULL,
     graph_used |-> FALSE, log_used |-> FALSE]

\* prepare_bundle, up to the reference (git and tar do the rest)
GitBare_prepare_bundle(t) ==
    write_refs(load_subgraph(init_git, t.obj_type, t.obj_id, t), t)

\* create_task asks the cooker of task n whether its root exists
GitCheckExists(n) ==
    /\ cooker[n].exists = NULL
    /\ cooker' = [cooker EXCEPT ![n].exists =
            LET r == GitBare_check_exists(cooker[n].obj_type, cooker[n].obj_id)
            IN  IF r.exc # NULL THEN r.exc ELSE r.ret]
    /\ UNCHANGED <<vault_bundle, vault_notif_email, next_bundle_id,
                   next_notif_id, sent, last>>

\* prepare_bundle of the cooker of task n, for a root that is in storage
GitPrepareBundle(n) ==
    /\ ~cooker[n].prepared
    /\ cooker[n].obj_id \notin {"r9", "d9"}
    /\ cooker' = [cooker EXCEPT ![n].prepared = TRUE,
                                ![n].bundle = GitBare_prepare_bundle(cooker[n])]
    /\ UNCHANGED <<vault_bundle, vault_notif_email, next_bundle_id,
                   next_notif_id, sent, last>>

\* ---------------------------------------------------------- specifications
Init ==
    /\ now = 0
    /\ cache = {}
    /\ vault_bundle = {}
    /\ vault_notif_email = {}
    /\ cooker = <<>>
    /\ next_bundle_id = 1
    /\ next_notif_id = 1
    /\ sent = <<>>
    /\ last = [op |-> "init", key |-> NULL, email |-> NULL, ok |-> TRUE]
    /\ client = [c \in Clients |-> Idle]

\* a run of the test cooker (BaseVaultCookerMock) on its own: the bundle has
\* been requested, and the cooker is configured with a size limit, with the
\* chunks its prepare_bundle writes and with the exception, if any, that
\* prepare_bundle is made to raise instead
MockChunks ==
    UNION {[1..n -> 1..MaxChunkLen] : n \in 0..MaxChunks}

MockTask(max_bundle_size, chunks, side_effect) ==
    [key |-> "k1", pc |-> "queued", calls |-> <<>>, exc |-> NULL,
     max_bundle_size |-> max_bundle_size, chunks |-> chunks,
     side_effect |-> side_effect]

InitCook ==
    /\ now = 0
    /\ cache = {}
    /\ vault_bundle = SetTaskId({NewRow(1, "k1", FALSE)}, "k1", 1)
    /\ vault_notif_email = {}
    /\ \E m \in {NoLimit} \cup 0..MaxLimit, ch \in MockChunks,
          e \in {NULL, "Nope"} :
            cooker = <<MockTask(m, ch, e)>>
    /\ next_bundle_id = 2
    /\ next_notif_id = 1
    /\ sent = <<>>
    /\ last = [op |-> "cook_request", key |-> "k1", email |-> NULL, ok |-> TRUE]
    /\ client = [c \in Clients |-> Idle]

\* a git-bare cooker on its own: the bundle has been requested for some root
\* object, with or without a graph service, a submodule in the tree of r2
\* and a filtered content c1
GitTask(root, graph, submodule, content_status) ==
    [key |-> "k1", pc |-> "queued", calls |-> <<>>, exc |-> NULL,
     max_bundle_size |-> DEFAULT_max_bundle_size,
     obj_type |-> root.obj_type, obj_id |-> root.obj_id, graph |-> graph,
     submodule |-> submodule, content_status |-> content_status,
     exists |-> NULL, prepared |-> FALSE, bundle |-> init_git]

InitGit ==
    /\ now = 0
    /\ cache = {}
    /\ vault_bundle = SetTaskId({NewRow(1, "k1", FALSE)}, "k1", 1)
    /\ vault_notif_email = {}
    /\ \E root \in GitRoots, graph \in GraphModes, submodule \in BOOLEAN,
          content_status \in ContentStatuses :
            cooker = <<GitTask(root, graph, submodule, content_status)>>
    /\ next_bundle_id = 2
    /\ next_notif_id = 1
    /\ sent = <<>>
    /\ last = [op |-> "cook_request", key |-> "k1", email |-> NULL, ok |-> TRUE]
    /\ client = [c \in Clients |-> Idle]

\* a user posts /cook
CookRequest ==
    \E k \in Keys, email \in Emails \cup {NULL}, sticky \in BOOLEAN,
       smtp_ok \in BOOLEAN :
        cook_request(k, email, sticky, smtp_ok)
            /\ UNCHANGED <<client, now, cache>>

\* the same route, without the sticky parameter in the query
CookRequestPlain ==
    \E k \in Archived, email \in Emails \cup {NULL}, smtp_ok \in BOOLEAN :
        cook_request(k, email, FALSE, smtp_ok)
            /\ UNCHANGED <<client, now, cache>>

CookerStep ==
    \E t \in DOMAIN cooker :
        /\ \/ CookSetPending(t)
           \/ CookSetProgress(t)
           \/ CookNewSink(t)
        /\ UNCHANGED <<client, now, cache>>

\* the vault as deployed: requests, and the workers the scheduler starts
Next ==
    \/ CookRequest
    \/ CookerStep

Spec == Init /\ [][Next]_vars

\* the test cooker's run, nothing else happening
SpecCook == InitCook /\ [][CookerStep]_vars

\* the git-bare cooker: its check_exists and its prepare_bundle called on
\* their own, and its cook() run
GitStep ==
    \E n \in DOMAIN cooker :
        /\ \/ GitCheckExists(n)
           \/ GitPrepareBundle(n)
        /\ UNCHANGED <<client, now, cache>>

NextGit ==
    \/ GitStep
    \/ CookerStep

SpecGit == InitGit /\ [][NextGit]_vars

\* the backend driven method by method, as the RPC routes and the tests of
\* the backend do
ApiSetStatus ==
    \E k \in Archived, s \in Statuses :
        set_status(k, s) /\ UNCHANGED <<cooker, client, now, cache>>

ApiSendNotif ==
    \E k \in Archived :
        send_all_notifications(k) /\ UNCHANGED <<cooker, client, now, cache>>

NextApi ==
    \/ CookRequestPlain
    \/ ApiSetStatus
    \/ ApiSendNotif

SpecApi == Init /\ [][NextApi]_vars

\* two VaultBackend instances on one database, each running cook_request or
\* create_task statement by statement, and the /set_status route
ClientStep ==
    \E c \in Clients :
        /\ \/ TxnCookRequest(c)
           \/ TxnCreateTask(c)
           \/ TxnDelete(c)
           \/ TxnInsert(c)
           \/ TxnSendTask(c)
           \/ TxnUpdate(c)
           \/ TxnEmail(c)
           \/ TxnReturn(c)
        /\ UNCHANGED <<now, cache>>

\* the worker of the bundle reports its final status
TxnSetStatus ==
    \E s \in {"done", "failed"} :
        set_status(TxnKey, s) /\ UNCHANGED <<cooker, client, now, cache>>

NextTxn ==
    \/ ClientStep
    \/ TxnSetStatus

SpecTxn == Init /\ [][NextTxn]_vars

\* retrieval: one bundle is requested, cooked by a worker that reports any
\* status and uploads the blob, fetched and expired, while time passes
FetchKey == "k1"

Tick ==
    /\ now < MaxClock
    /\ now' = now + 1
    /\ UNCHANGED <<vault_bundle, vault_notif_email, cooker, next_bundle_id,
                   next_notif_id, sent, last, client, cache>>

FetchCookRequest ==
    cook_request(FetchKey, NULL, FALSE, TRUE)
        /\ UNCHANGED <<client, now, cache>>

FetchSetStatus ==
    \E s \in Statuses :
        set_status(FetchKey, s) /\ UNCHANGED <<cooker, client, now, cache>>

FetchPutBundle ==
    put_bundle(FetchKey) /\ UNCHANGED <<cooker, client, now>>

FetchFetch ==
    vault_fetch(FetchKey) /\ UNCHANGED <<cooker, client, now>>

FetchUpdateAccessTs ==
    update_access_ts(FetchKey) /\ UNCHANGED <<cooker, client, now>>

FetchExpire ==
    \E by \in ExpireBy :
        cache_expire_until(now, by) /\ UNCHANGED <<cooker, client, now>>

NextFetch ==
    \/ FetchCookRequest
    \/ FetchSetStatus
    \/ FetchPutBundle
    \/ FetchFetch
    \/ FetchUpdateAccessTs
    \/ FetchExpire
    \/ Tick

SpecFetch == Init /\ [][NextFetch]_vars

\* expiration: two bundles, sticky or not, the first with or without an
\* address to notify, are requested, finished, fetched, and expired by the
\* administrator, while time passes
ExpireKeys == {"k1", "k2"}
ExpireEmails(k) == IF k = "k1" THEN {NULL, "a@example.com"} ELSE {NULL}

ExpireCookRequest ==
    \E k \in ExpireKeys, sticky \in BOOLEAN :
        \E email \in ExpireEmails(k) :
            cook_request(k, email, sticky, TRUE)
                /\ UNCHANGED <<client, now, cache>>

ExpireSetStatus ==
    \E k \in ExpireKeys :
        set_status(k, "done") /\ UNCHANGED <<cooker, client, now, cache>>

ExpirePutBundle ==
    \E k \in ExpireKeys : put_bundle(k) /\ UNCHANGED <<cooker, client, now>>

ExpireFetch ==
    \E k \in ExpireKeys : vault_fetch(k) /\ UNCHANGED <<cooker, client, now>>

ExpireOldest ==
    \E n \in 1..2, by \in ExpireBy :
        cache_expire_oldest(n, by) /\ UNCHANGED <<cooker, client, now>>

ExpireUntil ==
    \E date \in 0..MaxClock, by \in ExpireBy :
        cache_expire_until(date, by) /\ UNCHANGED <<cooker, client, now>>

NextExpire ==
    \/ ExpireCookRequest
    \/ ExpireSetStatus
    \/ ExpirePutBundle
    \/ ExpireFetch
    \/ ExpireOldest
    \/ ExpireUntil
    \/ Tick

SpecExpire == Init /\ [][NextExpire]_vars

\* ------------------------------------------------------- VaultBackend.cursor
\* A call of cursor() by a VaultBackend instance whose connection has been
\* dropped.  The record of the client holds the locals of the call (tries,
\* cur), the connection self.db (good: a statement on it succeeds; closed:
\* psycopg2 has marked it closed) and what the database does during the
\* call: heal_at is the number of psycopg2.connect calls after which a
\* connection works (0: the present one works), detects whether psycopg2
\* marks a connection closed when a statement on it fails, refuses whether
\* psycopg2.connect raises, rather than handing out a connection that does
\* not work, as long as the database is not back.

\* the largest number of connect calls the database may need
MaxHeal == 4

\* the attempts of cursor(): `if tries < 3`
CursorTries == 3

CursorCall(heal_at, detects, refuses) ==
    [pc |-> "try", op |-> "cursor", key |-> NULL, tries |-> 0, cur |-> FALSE,
     good |-> heal_at = 0, closed |-> FALSE, connects |-> 0,
     heal_at |-> heal_at, detects |-> detects, refuses |-> refuses,
     exc |-> NULL]

\* reconnect(): psycopg2.connect if there is no open connection
reconnect(st) ==
    IF ~st.closed THEN st
    ELSE IF st.connects + 1 >= st.heal_at
    THEN [st EXCEPT !.connects = @ + 1, !.good = TRUE, !.closed = FALSE]
    ELSE IF st.refuses
    THEN [st EXCEPT !.connects = @ + 1, !.exc = "OperationalError"]
    ELSE [st EXCEPT !.connects = @ + 1, !.good = FALSE, !.closed = FALSE]

\* cursor(), the try of the loop: tries += 1; cur = self.db.cursor();
\* cur.execute('select 1'); break
CursorTry(c) ==
    /\ client[c].op = "cursor" /\ client[c].pc = "try"
    /\ client' = [client EXCEPT ![c] =
           IF client[c].good
           THEN [@ EXCEPT !.tries = @ + 1, !.cur = TRUE, !.pc = "returned"]
           ELSE [@ EXCEPT !.tries = @ + 1, !.closed = @ \/ client[c].detects,
                          !.pc = "except"]]
    /\ UNCHANGED <<vault_bundle, vault_notif_email, cooker, next_bundle_id,
                   next_notif_id, sent, last, now, cache>>

\* cursor(), the except clause: reconnect if tries < 3, else raise; an
\* exception of reconnect leaves the call as well
CursorExcept(c) ==
    /\ client[c].op = "cursor" /\ client[c].pc = "except"
    /\ client' = [client EXCEPT ![c] =
           IF client[c].tries < CursorTries
           THEN LET st == reconnect(client[c])
                IN  IF st.exc # NULL THEN [st EXCEPT !.pc = "raised"]
                    ELSE [st EXCEPT !.pc = "try"]
           ELSE [@ EXCEPT !.exc = "OperationalError", !.pc = "raised"]]
    /\ UNCHANGED <<vault_bundle, vault_notif_email, cooker, next_bundle_id,
                   next_notif_id, sent, last, now, cache>>

\* two instances, each in a call of cursor() on its own connection
InitCursor ==
    /\ now = 0
    /\ cache = {}
    /\ vault_bundle = {}
    /\ vault_notif_email = {}
    /\ cooker = <<>>
    /\ next_bundle_id = 1
    /\ next_notif_id = 1
    /\ sent = <<>>
    /\ last = [op |-> "init", key |-> NULL, email |-> NULL, ok |-> TRUE]
    /\ client \in [Clients -> {CursorCall(h, d, r) :
                        h \in 0..MaxHeal, d \in BOOLEAN, r \in BOOLEAN}]

NextCursor ==
    \E c \in Clients :
        \/ CursorTry(c)
        \/ CursorExcept(c)

SpecCursor == InitCursor /\ [][NextCursor]_vars

\* --------------------------------------------------------- DirectoryBuilder
\* The contents written in place of a file's bytes
MISSING_MESSAGE ==
    "This content is missing from the Software Heritage archive (or from the mirror used while retrieving it)."
SKIPPED_MESSAGE ==
    "This content has not been retrieved in the Software Heritage archive due to its size."
HIDDEN_MESSAGE == "This content is hidden."

\* the most files a directory holds
MaxFiles == 2

\* A file entry of directory_ls, with what happens when it is handled: its
\* status (None when the archive has no row for the content, other for a
\* value outside the enumeration), what the fetch of its bytes gives (the
\* data, None, or an error of the storage) and whether the file can be
\* written on disk
FileCases ==
    [status : {"visible", "absent", "hidden", "None", "other"},
     fetch : {"data", "None", "error"}, write_ok : BOOLEAN]

\* get_filtered_file_content of to_disk.py: the content, or the exception
get_filtered_file_content(file_data) ==
    IF file_data.status = "visible"
    THEN IF file_data.fetch = "error"
         THEN [exc |-> "StorageError", content |-> NULL]
         ELSE IF file_data.fetch = "None"
         THEN [exc |-> NULL, content |-> SKIPPED_MESSAGE]
         ELSE [exc |-> NULL, content |-> "data"]
    ELSE IF file_data.status = "absent"
    THEN [exc |-> NULL, content |-> SKIPPED_MESSAGE]
    ELSE IF file_data.status = "hidden"
    THEN [exc |-> NULL, content |-> HIDDEN_MESSAGE]
    ELSE IF file_data.status = "None"
    THEN [exc |-> NULL, content |-> MISSING_MESSAGE]
    ELSE [exc |-> "AssertionError", content |-> NULL]

\* get_filtered_file_content of cookers/base.py, which the directory cooker
\* uses: list(storage.content_get([sha1]))[0]['data'] raises TypeError when
\* content_get yields None
base_get_filtered_file_content(file_data) ==
    IF file_data.status = "absent"
    THEN [exc |-> NULL, content |-> SKIPPED_MESSAGE]
    ELSE IF file_data.status = "hidden"
    THEN [exc |-> NULL, content |-> HIDDEN_MESSAGE]
    ELSE IF file_data.fetch = "error"
    THEN [exc |-> "StorageError", content |-> NULL]
    ELSE IF file_data.fetch = "None"
    THEN [exc |-> "TypeError", content |-> NULL]
    ELSE [exc |-> NULL, content |-> "data"]

\* a future of the thread pool, or a turn of the loop: not yet started
Submitted == [pc |-> "submitted", exc |-> NULL, content |-> NULL]

\* A build of a directory with the given files by the DirectoryBuilder of
\* to_disk.py (a thread pool) or of cookers/base.py (a loop); the
\* directories are there already
BuildTask(builder, files) ==
    [key |-> "k1", pc |-> "create_files", builder |-> builder,
     files |-> files, worker |-> [i \in DOMAIN files |-> Submitted],
     written |-> {}, exc |-> NULL]

\* to_disk _create_files, lines 141-144: the executor and its futures
BuildSubmit(n) ==
    /\ cooker[n].builder = "to_disk" /\ cooker[n].pc = "create_files"
    /\ cooker' = [cooker EXCEPT ![n].pc = "wait"]

\* worker, lines 135-137: get_filtered_file_content in a pool thread; an
\* exception ends the thread and is kept in its future
WorkerFetch(n, i) ==
    /\ cooker[n].builder = "to_disk" /\ cooker[n].pc = "wait"
    /\ cooker[n].worker[i].pc = "submitted"
    /\ LET r == get_filtered_file_content(cooker[n].files[i])
       IN  cooker' = [cooker EXCEPT ![n].worker[i] =
               IF r.exc # NULL
               THEN [pc |-> "raised", exc |-> r.exc, content |-> NULL]
               ELSE [pc |-> "fetched", exc |-> NULL, content |-> r.content]]

\* worker, lines 138-139: self._create_file(path, content, perms)
WorkerWrite(n, i) ==
    /\ cooker[n].builder = "to_disk"
    /\ cooker[n].worker[i].pc = "fetched"
    /\ cooker' =
           IF cooker[n].files[i].write_ok
           THEN [cooker EXCEPT ![n].worker[i].pc = "done",
                               ![n].written = @ \cup {i}]
           ELSE [cooker EXCEPT ![n].worker[i].pc = "raised",
                               ![n].worker[i].exc = "OSError"]

\* to_disk _create_files, line 145: concurrent.futures.wait(futures) returns
\* when every future is done, whether it holds a result or an exception; no
\* future is asked for its result, and build() returns
BuildWait(n) ==
    /\ cooker[n].builder = "to_disk" /\ cooker[n].pc = "wait"
    /\ \A i \in DOMAIN cooker[n].worker :
           cooker[n].worker[i].pc \in {"done", "raised"}
    /\ cooker' = [cooker EXCEPT ![n].pc = "returned"]

\* cookers/base.py _create_files, lines 210-213: one turn of the loop; an
\* exception leaves the loop and build_directory
BaseCreateFile(n) ==
    /\ cooker[n].builder = "base" /\ cooker[n].pc = "create_files"
    /\ \E i \in DOMAIN cooker[n].files :
         /\ cooker[n].worker[i].pc = "submitted"
         /\ \A j \in 1..(i - 1) : cooker[n].worker[j].pc = "done"
         /\ LET r == base_get_filtered_file_content(cooker[n].files[i])
                exc == IF r.exc # NULL THEN r.exc
                       ELSE IF ~cooker[n].files[i].write_ok THEN "OSError"
                       ELSE NULL
            IN  cooker' =
                  IF exc # NULL
                  THEN [cooker EXCEPT ![n].pc = "raised", ![n].exc = exc,
                            ![n].worker[i] = [pc |-> "raised", exc |-> exc,
                                              content |-> r.content]]
                  ELSE [cooker EXCEPT
                            ![n].pc = IF i = Len(cooker[n].files)
                                      THEN "returned" ELSE @,
                            ![n].written = @ \cup {i},
                            ![n].worker[i] = [pc |-> "done", exc |-> NULL,
                                              content |-> r.content]]

InitBuild ==
    /\ now = 0
    /\ cache = {}
    /\ vault_bundle = SetTaskId({NewRow(1, "k1", FALSE)}, "k1", 1)
    /\ vault_notif_email = {}
    /\ \E builder \in {"to_disk", "base"} :
         \E files \in UNION {[1..m -> FileCases] : m \in 1..MaxFiles} :
            cooker = <<BuildTask(builder, files)>>
    /\ next_bundle_id = 2
    /\ next_notif_id = 1
    /\ sent = <<>>
    /\ last = [op |-> "cook_request", key |-> "k1", email |-> NULL, ok |-> TRUE]
    /\ client = [c \in Clients |-> Idle]

NextBuild ==
    \E n \in DOMAIN cooker :
        /\ \/ BuildSubmit(n)
           \/ \E i \in DOMAIN cooker[n].files : WorkerFetch(n, i)
           \/ \E i \in DOMAIN cooker[n].files : WorkerWrite(n, i)
           \/ BuildWait(n)
           \/ BaseCreateFile(n)
        /\ UNCHANGED <<vault_bundle, vault_notif_email, next_bundle_id,
                       next_notif_id, sent, last, client, now, cache>>

SpecBuild == InitBuild /\ [][NextBuild]_vars

\* ------------------------------------------------------------------- retries
\* One bundle over its whole life: requested with or without an address
\* and sticky or not, cooked by the workers the scheduler starts, reported
\* on through the routes in any status (a failed bundle is requested
\* again), uploaded, notified and fetched.
RetryKey == "k1"

\* the record of an instance that has served a call with these arguments
Served(op, k, email, sticky) ==
    [pc |-> "idle", op |-> op, key |-> k, email |-> email, info |-> {},
     task_id |-> NULL, replacing |-> FALSE, exc |-> NULL, sticky |-> sticky]

RetryCookRequest ==
    \E email \in TxnEmails, sticky \in BOOLEAN :
        /\ cook_request(RetryKey, email, sticky, TRUE)
        /\ client' = [client EXCEPT
                         ![1] = Served("cook_request", RetryKey, email, sticky)]
        /\ UNCHANGED <<now, cache>>

RetrySetStatus ==
    \E s \in Statuses :
        set_status(RetryKey, s) /\ UNCHANGED <<cooker, client, now, cache>>

RetrySetProgress ==
    set_progress(RetryKey, "Computing revision 1/1")
        /\ UNCHANGED <<cooker, client, now, cache>>

RetrySendNotif ==
    send_all_notifications(RetryKey)
        /\ UNCHANGED <<cooker, client, now, cache>>

RetryPutBundle ==
    put_bundle(RetryKey) /\ UNCHANGED <<cooker, client, now>>

RetryFetch ==
    vault_fetch(RetryKey) /\ UNCHANGED <<cooker, client, now>>

NextRetry ==
    \/ RetryCookRequest
    \/ RetrySetStatus
    \/ RetrySetProgress
    \/ RetrySendNotif
    \/ RetryPutBundle
    \/ RetryFetch
    \/ CookerStep

SpecRetry == Init /\ [][NextRetry]_vars

\* ------------------------------------------------- revision_gitfast cooker
\* RevisionGitfastCooker (swh/vault/cookers/revision_gitfast.py): the log of
\* a revision is sorted topologically and exported as one stream of
\* git-fast-import commands.

\* revisions of a log
MaxRevs == 3

RevId(i) ==
    CASE i = 1 -> "v1" [] i = 2 -> "v2" [] i = 3 -> "v3" [] OTHER -> "v4"

\* the logs closed under parents of at most max revisions, the directories
\* of the revisions drawn from dirs.  rev['parents'] of the i-th revision:
\* up to two parents among the revisions before it, so that the graph has
\* no cycle; a parent may be listed twice.  order is the iteration order of
\* the dictionary rev_by_id (line 39): the order in which
\* storage.revision_log returned the revisions
RevisionLogs(dirs, max) ==
    LET ParentLists(i) ==
            LET lower == {RevId(j) : j \in 1..(i - 1)}
            IN  {<<>>} \cup {<<p>> : p \in lower}
                       \cup {<<p, q>> : p \in lower, q \in lower}
        LogOrders(revs) ==
            {o \in [1..Cardinality(revs) -> revs] :
                \A i \in DOMAIN o : \A j \in DOMAIN o : o[i] = o[j] => i = j}
    IN  UNION {
            LET revs == {RevId(i) : i \in 1..m}
            IN  {[order |-> o, parents |-> p, directory |-> d] :
                    o \in LogOrders(revs),
                    p \in {f \in [revs -> UNION {ParentLists(i) : i \in 1..m}] :
                              \A i \in 1..m : f[RevId(i)] \in ParentLists(i)},
                    d \in [revs -> dirs]}
            : m \in 1..max}

\* children[parent] after the loop of lines 69-74: rev_id appended once per
\* occurrence of parent in its parents, in iteration order
RECURSIVE toposort_children(_, _, _)
toposort_children(log, parent, i) ==
    IF i > Len(log.order) THEN <<>>
    ELSE LET rev_id == log.order[i]
             ps == log.parents[rev_id]
             n == Cardinality({j \in DOMAIN ps : ps[j] = parent})
         IN  [j \in 1..n |-> rev_id] \o toposort_children(log, parent, i + 1)

toposort_ready_always(in_degree, child) == TRUE

\* line 83: a child is ready once all its parents have been yielded
toposort_ready(in_degree, child) == in_degree[child] = 0

\* lines 81-84: the loop over the children of the revision just yielded
RECURSIVE toposort_release(_, _, _)
toposort_release(childs, in_degree, queue) ==
    IF childs = <<>> THEN [in_degree |-> in_degree, queue |-> queue]
    ELSE LET child == Head(childs)
             deg == [in_degree EXCEPT ![child] = @ - 1]
         IN  toposort_release(Tail(childs), deg,
                              IF toposort_ready(deg, child)
                              THEN Append(queue, child) ELSE queue)

\* the directories of the archive as storage.directory_ls lists them: a file
\* entry carries the sha1 of its content and its permissions, a directory
\* entry its target.  e0 is empty; t1..t5 differ from one another by a
\* content, a permission, a name or an addition; t6 has a directory where
\* t1 has a file; t7 and t9 differ below a; t8 holds an empty directory
directory_ls(dir_id) ==
    LET FileEntry(name, sha1, perms) ==
            [name |-> name, type |-> "file", target |-> sha1, sha1 |-> sha1,
             perms |-> perms]
        DirEntry(name, target) ==
            [name |-> name, type |-> "dir", target |-> target, sha1 |-> "None",
             perms |-> "040000"]
    IN  CASE dir_id = "e0" -> <<>>
          [] dir_id = "t1" -> <<FileEntry("a", "x", "100644")>>
          [] dir_id = "t2" -> <<FileEntry("a", "y", "100644")>>
          [] dir_id = "t3" -> <<FileEntry("a", "x", "100755")>>
          [] dir_id = "t4" -> <<FileEntry("b", "x", "100644")>>
          [] dir_id = "t5" -> <<FileEntry("a", "x", "100644"), FileEntry("b", "y", "100644")>>
          [] dir_id = "t6" -> <<DirEntry("a", "t1")>>
          [] dir_id = "t7" -> <<DirEntry("a", "t5"), FileEntry("b", "x", "100644")>>
          [] dir_id = "t8" -> <<DirEntry("a", "e0"), FileEntry("b", "x", "100644")>>
          [] dir_id = "t9" -> <<DirEntry("a", "t2"), FileEntry("b", "x", "100644")>>
          [] OTHER -> <<>>

\* swh.model.from_disk.mode_to_perms, called at line 220: the permissions
\* git knows
mode_to_perms(perms) ==
    CASE perms = "100755" -> "100755"
      [] perms = "120000" -> "120000"
      [] perms = "040000" -> "040000"
      [] OTHER -> "100644"

\* _get_dir_ents: the entries by name; no directory has no entry
get_dir_ents(dir_id) == IF dir_id = "None" THEN <<>> ELSE directory_ls(dir_id)

InDir(ents, fname) == \E i \in DOMAIN ents : ents[i].name = fname

DirGet(ents, fname) == ents[CHOOSE i \in DOMAIN ents : ents[i].name = fname]

\* the exporter: obj_to_mark, next_available_mark and obj_done (lines
\* 41-43) and the commands yielded so far
init_export ==
    [obj_to_mark |-> [o \in {} |-> 0], next_available_mark |-> 1,
     obj_done |-> {}, out |-> <<>>]

\* mark: a new mark for an object that has none
mark(g, obj_id) ==
    IF obj_id \in DOMAIN g.obj_to_mark THEN g
    ELSE [g EXCEPT !.obj_to_mark = @ @@ (obj_id :> g.next_available_mark),
                   !.next_available_mark = @ + 1]

\* _compute_blob_command_content: one blob command per content
compute_blob_command_content(g, file_data) ==
    LET obj_id == file_data.sha1
        g1 == mark(g, obj_id)
    IN  IF obj_id \in g.obj_done THEN g
        ELSE [g1 EXCEPT !.out = Append(@, [cmd |-> "blob",
                                           mark |-> g1.obj_to_mark[obj_id],
                                           data |-> obj_id]),
                        !.obj_done = @ \cup {obj_id}]

\* lines 198-203: the names of prev_dir that cur_dir has not, or has with
\* another type
RECURSIVE file_deletes(_, _, _, _)
file_deletes(root, cur_dir, prev_dir, i) ==
    IF i > Len(prev_dir) THEN <<>>
    ELSE LET f == prev_dir[i]
             rest == file_deletes(root, cur_dir, prev_dir, i + 1)
         IN  IF ~InDir(cur_dir, f.name) \/ f.type # DirGet(cur_dir, f.name).type
             THEN <<[cmd |-> "filedelete", path |-> Append(root, f.name)]>> \o rest
             ELSE rest

\* lines 209-232: the loop over cur_dir; acc holds commands, stack and the
\* exporter
RECURSIVE file_modifies(_, _, _, _, _)
file_modifies(root, cur_dir, prev_dir, i, acc) ==
    IF i > Len(cur_dir) THEN acc
    ELSE LET f == cur_dir[i]
             known == InDir(prev_dir, f.name)
             g1 == compute_blob_command_content(acc.g, f)
             g2 == mark(g1, f.sha1)
             f_prev_target ==
                 IF known /\ DirGet(prev_dir, f.name).type = "dir"
                 THEN DirGet(prev_dir, f.name).target ELSE "None"
             next ==
                 IF /\ f.type = "file"
                    /\ \/ ~known
                       \/ f.sha1 # DirGet(prev_dir, f.name).sha1
                       \/ f.perms # DirGet(prev_dir, f.name).perms
                 THEN [acc EXCEPT
                          !.g = g2,
                          !.commands = Append(@, [cmd |-> "filemodify",
                                                  path |-> Append(root, f.name),
                                                  mode |-> mode_to_perms(f.perms),
                                                  dataref |-> g2.obj_to_mark[f.sha1]])]
                 ELSE IF f.type = "dir" /\ (f_prev_target = "None" \/ f.target # f_prev_target)
                 THEN [acc EXCEPT
                          !.stack = Append(@, [root |-> Append(root, f.name),
                                               cur |-> f.target,
                                               prev |-> f_prev_target])]
                 ELSE acc
         IN  file_modifies(root, cur_dir, prev_dir, i + 1, next)

\* lines 184-233: the loop over the stack of directories to compare
RECURSIVE file_commands_loop(_)
file_commands_loop(acc) ==
    IF acc.stack = <<>> THEN acc
    ELSE LET top == acc.stack[Len(acc.stack)]
             cur_dir == get_dir_ents(top.cur)
             prev_dir == get_dir_ents(top.prev)
             popped == [acc EXCEPT
                           !.stack = SubSeq(@, 1, Len(@) - 1),
                           !.commands = @ \o file_deletes(top.root, cur_dir, prev_dir, 1)]
         IN  file_commands_loop(file_modifies(top.root, cur_dir, prev_dir, 1, popped))

\* _compute_file_commands: the difference between the directory of a
\* revision and the directory of its first parent
compute_file_commands(g, cur_dir, parent_dir) ==
    file_commands_loop([commands |-> <<>>, g |-> g,
                        stack |-> <<[root |-> <<>>, cur |-> cur_dir, prev |-> parent_dir]>>])

\* marks of parents[1:], line 131
RECURSIVE mark_all(_, _)
mark_all(g, revs) ==
    IF revs = <<>> THEN g ELSE mark_all(mark(g, Head(revs)), Tail(revs))

\* _compute_commit_command: reset for a revision without parents, the blob
\* commands of its new contents, then its commit command
compute_commit_command(g, log, rev) ==
    LET parents == log.parents[rev]
        g1 == IF parents # <<>> THEN mark_all(g, parents)
              ELSE [g EXCEPT !.out = Append(@, [cmd |-> "reset"])]
        parent_dir == IF parents # <<>> THEN log.directory[parents[1]] ELSE "None"
        fc == compute_file_commands(g1, log.directory[rev], parent_dir)
        g2 == mark(fc.g, rev)
    IN  [g2 EXCEPT !.out = Append(@,
            [cmd |-> "commit", rev |-> rev, mark |-> g2.obj_to_mark[rev],
             from_ |-> IF parents # <<>> THEN g1.obj_to_mark[parents[1]] ELSE 0,
             merges |-> IF parents # <<>>
                        THEN [j \in 1..(Len(parents) - 1) |-> g1.obj_to_mark[parents[j + 1]]]
                        ELSE <<>>,
             files |-> fc.commands])]

\* _toposort, lines 63-74: in-degrees, children and the queue of roots
ToposortInit(n) ==
    /\ cooker[n].pc = "toposort"
    /\ LET log == cooker[n].log
           revs == {log.order[i] : i \in DOMAIN log.order}
       IN  cooker' = [cooker EXCEPT
               ![n].pc = "sort",
               ![n].in_degree = [r \in revs |-> Len(log.parents[r])],
               ![n].children = [r \in revs |-> toposort_children(log, r, 1)],
               ![n].queue = SelectSeq(log.order, LAMBDA r : log.parents[r] = <<>>)]
    /\ UNCHANGED <<vault_bundle, vault_notif_email, next_bundle_id,
                   next_notif_id, sent, last>>

\* _toposort, lines 78-84: one turn of the loop
ToposortYield(n) ==
    /\ cooker[n].pc = "sort" /\ cooker[n].queue # <<>>
    /\ LET rev_id == Head(cooker[n].queue)
           r == toposort_release(cooker[n].children[rev_id], cooker[n].in_degree,
                                 Tail(cooker[n].queue))
       IN  cooker' = [cooker EXCEPT
               ![n].rev_sorted = Append(@, rev_id),
               ![n].in_degree = r.in_degree,
               ![n].queue = r.queue]
    /\ UNCHANGED <<vault_bundle, vault_notif_email, next_bundle_id,
                   next_notif_id, sent, last>>

\* fastexport, lines 40-45: the sort is over, the exporter starts empty
FastexportStart(n) ==
    /\ cooker[n].pc = "sort" /\ cooker[n].queue = <<>>
    /\ cooker' = [cooker EXCEPT ![n].pc = "export", ![n].i = 1, ![n].g = init_export]
    /\ UNCHANGED <<vault_bundle, vault_notif_email, next_bundle_id,
                   next_notif_id, sent, last>>

\* fastexport, lines 47-58: one revision; the progress is reported for the
\* first revision and then whenever two seconds have passed
FastexportRevision(n, report) ==
    /\ cooker[n].pc = "export" /\ cooker[n].i <= Len(cooker[n].rev_sorted)
    /\ cooker[n].i = 1 => report
    /\ IF report
       THEN set_progress(cooker[n].key,
                         "Computing revision " \o ToString(cooker[n].i) \o "/"
                             \o ToString(Len(cooker[n].rev_sorted)))
       ELSE UNCHANGED <<vault_bundle, vault_notif_email, next_bundle_id,
                        next_notif_id, sent, last>>
    /\ cooker' = [cooker EXCEPT
           ![n].g = compute_commit_command(@, cooker[n].log,
                                           cooker[n].rev_sorted[cooker[n].i]),
           ![n].i = @ + 1]

\* prepare_bundle, lines 32-34: the stream is complete
FastexportEnd(n) ==
    /\ cooker[n].pc = "export" /\ cooker[n].i > Len(cooker[n].rev_sorted)
    /\ cooker' = [cooker EXCEPT ![n].pc = "done"]
    /\ UNCHANGED <<vault_bundle, vault_notif_email, next_bundle_id,
                   next_notif_id, sent, last>>

\* a cooker run on a revision whose log is one of logs (prepare_bundle,
\* line 28)
InitGitfastOn(logs) ==
    /\ now = 0
    /\ cache = {}
    /\ vault_bundle = SetTaskId({NewRow(1, "k1", FALSE)}, "k1", 1)
    /\ vault_notif_email = {}
    /\ \E log \in logs :
           cooker = <<[key |-> "k1", pc |-> "toposort", log |-> log,
                       in_degree |-> [r \in {} |-> 0], children |-> [r \in {} |-> <<>>],
                       queue |-> <<>>, rev_sorted |-> <<>>, i |-> 0, g |-> init_export]>>
    /\ next_bundle_id = 2
    /\ next_notif_id = 1
    /\ sent = <<>>
    /\ last = [op |-> "cook_request", key |-> "k1", email |-> NULL, ok |-> TRUE]
    /\ client = [c \in Clients |-> Idle]

\* histories of every shape over two directories
InitGitfast == InitGitfastOn(RevisionLogs({"t1", "t5"}, MaxRevs))

\* a revision and its parent over every pair of directories
InitFileCommands ==
    InitGitfastOn({log \in RevisionLogs({"e0", "t1", "t2", "t3", "t4", "t5", "t6",
                                        "t7", "t8", "t9"}, 2) :
                      \A r \in DOMAIN log.parents : Len(log.parents[r]) <= 1})

NextGitfast ==
    \E n \in DOMAIN cooker :
        /\ \/ ToposortInit(n)
           \/ ToposortYield(n)
           \/ FastexportStart(n)
           \/ \E report \in BOOLEAN : FastexportRevision(n, report)
           \/ FastexportEnd(n)
        /\ UNCHANGED <<client, now, cache>>

SpecGitfast == InitGitfast /\ [][NextGitfast]_vars

SpecFileCommands == InitFileCommands /\ [][NextGitfast]_vars

\* ------------------------------------------------------------------ claims
\* number of mails in a handler's output that are addressed to email
CountTo(out, email) == Cardinality({i \in DOMAIN out : out[i].to = email})

\* the indexes of the calls of the callback fn in a cooker run
CallsOf(t, fn) == {i \in DOMAIN cooker[t].calls : cooker[t].calls[i].fn = fn}

\* the cook() run of task t is over
CookEnded(t) == cooker[t].pc = "ended"

\* the status changes a bundle's lifecycle allows
LifecycleSteps ==
    {<<"new", "pending">>, <<"pending", "done">>, <<"pending", "failed">>}

\* C2: the status of a bundle row only moves along new -> pending -> done or
\* new -> pending -> failed: whenever a row (same id) has a different status
\* after a step, the change is one of these three.
C2_StatusLifecycle ==
    [][\A r \in vault_bundle : \A r2 \in vault_bundle' :
          (r.id = r2.id /\ r.task_status # r2.task_status)
              => <<r.task_status, r2.task_status>> \in LifecycleSteps]_vars

\* C3: every run of cook() that started leaves its bundle in status done or
\* failed, never in pending.
C3_CookEndsFinal ==
    \A t \in DOMAIN cooker :
        CookEnded(t) =>
            \A r \in task_info(vault_bundle, cooker[t].key) :
                r.task_status \in {"done", "failed"}

\* C4: a cook() run in which prepare_bundle raised nothing has called
\* put_bundle exactly once, before set_status(done), and the last progress it
\* set is null.  (No run of the model has a prepare_bundle that raised.)
C4_PutBundleOnce ==
    \A t \in DOMAIN cooker :
        CookEnded(t) =>
            /\ Cardinality(CallsOf(t, "put_bundle")) = 1
            /\ \A i \in CallsOf(t, "put_bundle") :
                   \E j \in CallsOf(t, "set_status") :
                       i < j /\ cooker[t].calls[j].arg = "done"
            /\ \E i \in CallsOf(t, "set_progress") :
                   /\ cooker[t].calls[i].arg = NULL
                   /\ \A j \in CallsOf(t, "set_progress") : j <= i

\* C5: every run of cook() invokes send_notif exactly once, after the final
\* set_status (done or failed) of the run.
C5_SendNotifOnce ==
    \A t \in DOMAIN cooker :
        CookEnded(t) =>
            /\ Cardinality(CallsOf(t, "send_notif")) = 1
            /\ \A i \in CallsOf(t, "send_notif") :
                   \E j \in CallsOf(t, "set_status") :
                       j < i /\ cooker[t].calls[j].arg \in {"done", "failed"}

\* C6: no notification entry stays queued once the worker has finished: when
\* the cook() run of a bundle row is over, the entries added for that row
\* while it was new or pending have been flushed.
C6_WorkerFlushes ==
    \A t \in DOMAIN cooker :
        CookEnded(t) =>
            \A r \in vault_bundle :
                r.task_id = t =>
                    ~\E e \in vault_notif_email : e.bundle_id = r.id

\* C11: cook_request is idempotent: a call that returns and directly follows
\* a call with the same key and email that returned leaves the bundle's row
\* as it was (the same id, status, task handle and progress, which is the
\* bundle_info both calls return) and creates neither a row nor a task.
C11_CookRequestIdempotent ==
    [][(/\ last.op = "cook_request" /\ last.ok
        /\ last'.op = "cook_request" /\ last'.ok
        /\ last'.key = last.key /\ last'.email = last.email) =>
            /\ {r \in vault_bundle' : r.key = last.key}
                   = {r \in vault_bundle : r.key = last.key}
            /\ Cardinality({r \in vault_bundle' : r.key = last.key}) = 1
            /\ next_bundle_id' = next_bundle_id
            /\ cooker' = cooker]_vars

\* the same request with the same address was made twice in a row
C11_Witness ==
    /\ last.op = "cook_request" /\ last.ok /\ last.email # NULL
    /\ next_notif_id = 3
    /\ \A e \in vault_notif_email :
           e.email = last.email /\ e \in NotifsOf(last.key)
    /\ Cardinality(vault_notif_email) = 2
    /\ next_bundle_id = 2

\* C12: of two cook_request calls that run concurrently for a key without a
\* row, one creates the row and the other returns it: no cook_request ends
\* with the unique constraint's error.
C12_LoserSeesRow ==
    \A c \in Clients :
        client[c].op = "cook_request" => client[c].exc # "UniqueViolation"

\* the rows stored under the key of client c's call
RowsOfCall(tbl, c) == {r \in tbl : r.key = client[c].key}

\* C13: (type, object_id) is unique: no state has two rows with one key, and
\* a create_task that reaches its INSERT while the key has a row ends with
\* the unique constraint's integrity error and leaves the row, and the
\* scheduler, as they were.
C13_UniqueKey ==
    [][/\ \A r1, r2 \in vault_bundle' : r1.key = r2.key => r1 = r2
       /\ \A c \in Clients :
              (/\ client[c].pc = "insert" /\ client'[c] # client[c]
               /\ client[c].key \in Archived
               /\ RowsOfCall(vault_bundle, c) # {}) =>
                  /\ client'[c].pc = "idle"
                  /\ client'[c].exc = "UniqueViolation"
                  /\ vault_bundle' = vault_bundle
                  /\ cooker' = cooker]_vars

\* a direct create_task was refused because the key had a row
C13_Witness ==
    \E c \in Clients :
        /\ client[c].op = "create_task" /\ client[c].pc = "idle"
        /\ client[c].exc = "UniqueViolation"
        /\ \E r \in vault_bundle : r.key = client[c].key

\* C15: the replacement of a failed row is atomic: from the moment a
\* cook_request has found the failed row, the key is never without a row,
\* and if the call ends with an exception because the scheduler refused the
\* task, the failed row is still there.
C15_AtomicReplace ==
    \A c \in Clients :
        client[c].replacing =>
            /\ RowsOfCall(vault_bundle, c) # {}
            /\ client[c].exc = "SchedulerError" =>
                   \E r \in RowsOfCall(vault_bundle, c) :
                       r.task_status = "failed"

\* is the root object of key k in storage
InStorage(k) == k \in Archived \cup ArchivedRevisions

\* C17: for every bundle type, create_task on a root object that is in
\* storage and whose key has no row succeeds: its INSERT adds exactly one
\* row, with status new, null ts_done and null progress; the scheduler
\* call, when accepted, adds exactly one task; and the UPDATE leaves the
\* row with the id of that task as its handle and returns normally.
C17_CreateTaskSucceeds ==
    [][\A c \in Clients :
          (client[c].op = "create_task" /\ client'[c] # client[c]) =>
            /\ (/\ client[c].pc = "insert" /\ InStorage(client[c].key)
                /\ RowsOfCall(vault_bundle, c) = {}) =>
                   /\ client'[c].pc = "send_task"
                   /\ vault_bundle \subseteq vault_bundle'
                   /\ Cardinality(vault_bundle' \ vault_bundle) = 1
                   /\ \A r \in vault_bundle' \ vault_bundle :
                          /\ r.key = client[c].key
                          /\ r.task_status = "new"
                          /\ r.ts_done = NullTs
                          /\ r.progress_msg = NULL
            /\ (client[c].pc = "send_task" /\ client'[c].exc = NULL) =>
                   /\ Len(cooker') = Len(cooker) + 1
                   /\ cooker'[Len(cooker')].key = client[c].key
                   /\ client'[c].task_id = Len(cooker')
            /\ client[c].pc = "update" =>
                   /\ client'[c].pc = "idle" /\ client'[c].exc = NULL
                   /\ \A r \in RowsOfCall(vault_bundle', c) :
                          r.task_id = client[c].task_id]_vars

RECURSIVE SumTo(_, _)
SumTo(chunks, n) == IF n = 0 THEN 0 ELSE SumTo(chunks, n - 1) + chunks[n]

\* the writes of a run that go beyond the limit of the run
OverLimit(t) ==
    {i \in DOMAIN cooker[t].chunks :
        /\ cooker[t].max_bundle_size # NoLimit
        /\ SumTo(cooker[t].chunks, i) > cooker[t].max_bundle_size}

PolicyMessage == "The requested bundle exceeds the maximum allowed size"
GenericMessage == "Internal Server Error. This incident will be reported."

\* C18: size policy: a cook() run whose prepare_bundle writes more bytes
\* than max_bundle_size ends with status failed and with the policy error's
\* message (it contains "exceeds") as progress, and never calls put_bundle.
C18_SizePolicyFails ==
    \A t \in DOMAIN cooker :
        (CookEnded(t) /\ cooker[t].side_effect = NULL /\ OverLimit(t) # {}) =>
            /\ \A r \in task_info(vault_bundle, cooker[t].key) :
                   r.task_status = "failed" /\ r.progress_msg = PolicyMessage
            /\ CallsOf(t, "put_bundle") = {}

\* C19: a cook() run whose prepare_bundle raises an exception that is not a
\* policy error ends with status failed and with the fixed generic message
\* as progress, not the exception's text, and never calls put_bundle.
C19_InternalErrorFails ==
    \A t \in DOMAIN cooker :
        (CookEnded(t) /\ cooker[t].side_effect # NULL) =>
            /\ \A r \in task_info(vault_bundle, cooker[t].key) :
                   /\ r.task_status = "failed"
                   /\ r.progress_msg = GenericMessage
                   /\ r.progress_msg # cooker[t].side_effect
            /\ CallsOf(t, "put_bundle") = {}

\* C20: the sink of a run rejects a write with the policy error exactly
\* when the bytes it holds plus the chunk exceed size_limit: if no write of
\* the run goes beyond the limit (reaching it exactly included, and always
\* when no limit is set) every chunk is accepted and the sink holds them
\* all; otherwise the first write beyond the limit is rejected and the sink
\* holds what it held before that write.
C20_SinkRejectsOverLimit ==
    \A t \in DOMAIN cooker :
        CookEnded(t) =>
            LET f == SinkSession(cooker[t].max_bundle_size, cooker[t].chunks)
                over == OverLimit(t)
            IN  IF over = {}
                THEN /\ f.exc = NULL
                     /\ f.nbytes = SumTo(cooker[t].chunks, Len(cooker[t].chunks))
                ELSE /\ f.exc = "BundleTooLargeError"
                     /\ \E i \in over :
                            /\ \A j \in over : i <= j
                            /\ f.nbytes = SumTo(cooker[t].chunks, i - 1)

\* the step is a call of cache_expire_oldest or cache_expire_until (every
\* handler records itself as the latest, and handlers leave the clock alone)
ExpireStep ==
    /\ last'.op \in {"cache_expire_oldest", "cache_expire_until"}
    /\ now' = now

\* C21: expiration excludes sticky rows: no call of cache_expire_oldest or
\* cache_expire_until, whatever n, date and column it is given and whether
\* it returns or raises, removes a sticky row or deletes the blob of one.
C21_StickyNeverExpired ==
    [][ExpireStep =>
        \A r \in vault_bundle :
            r.sticky =>
                /\ r \in vault_bundle'
                /\ r.key \in cache => r.key \in cache']_vars

\* cache_expire_oldest(2, ...) has returned: it removed the one row that was
\* not sticky, and the sticky row and its blob are still there
C21_Witness ==
    /\ last.op = "cache_expire_oldest" /\ last.ok /\ last.n = 2
    /\ next_bundle_id = 3
    /\ Cardinality(vault_bundle) = 1
    /\ \A r \in vault_bundle : r.sticky /\ r.key \in cache

\* C22: expiration is ordered store-first, blob-second: whether the call
\* returns, is interrupted or has cache.delete fail part-way, no row that is
\* still in the table afterwards has lost its blob (orphan blobs are the
\* only inconsistency an expiration leaves).
C22_StoreFirstBlobSecond ==
    [][ExpireStep =>
        \A r \in vault_bundle' :
            r.key \in cache => r.key \in cache']_vars

C23_AccessTsMonotone ==
    [][\A r \in vault_bundle : \A r2 \in vault_bundle' :
          r.id = r2.id => r2.ts_last_access >= r.ts_last_access]_vars

\* update_access_ts has stamped, at time 1, a row created at time 0
C23_Witness ==
    /\ last.op = "update_access_ts"
    /\ \E r \in vault_bundle :
           r.key = last.key /\ r.ts_created = 0 /\ r.ts_last_access = 1

\* C24: ts_done of a row is non-null iff the status of the row has at some
\* point been done.  Step by step: a new row starts with status new and a
\* null ts_done; a row in status done has a ts_done; the ts_done of a row
\* is non-null after a step iff it was before or the row is now done; and
\* set_status stamps ts_done with the time of the call when the new status
\* is done and leaves it as it was for every other status.
C24_TsDoneIffEverDone ==
    [][\A r2 \in vault_bundle' :
          /\ r2.task_status = "done" => r2.ts_done # NullTs
          /\ (\A r \in vault_bundle : r.id # r2.id) =>
                 r2.task_status = "new" /\ r2.ts_done = NullTs
          /\ \A r \in vault_bundle :
                 r.id = r2.id =>
                     /\ r2.ts_done # NullTs
                            <=> (r.ts_done # NullTs \/ r2.task_status = "done")
                     /\ (/\ last'.op = "set_status" /\ now' = now
                         /\ r2.key = last'.key) =>
                            r2.ts_done = IF r2.task_status = "done"
                                         THEN now ELSE r.ts_done]_vars

\* a row that was done at time 0 has been set to pending at time 1: its
\* ts_done is still the time it was done
C24_Witness ==
    /\ last.op = "set_status" /\ now = 1
    /\ \E r \in vault_bundle :
           r.key = last.key /\ r.task_status = "pending" /\ r.ts_done = 0

\* C29: fetch returns the bundle iff the row exists with status done and the
\* blob is in the cache.  In that case it returns the blob of the key and
\* stamps ts_last_access of the row with the time of the call; in every
\* other case it returns nothing (the route answers not found) and leaves
\* the table as it was.  Neither case changes the cache, the notification
\* entries or the scheduler's tasks.
C29_FetchIffAvailable ==
    [][(last'.op = "fetch" /\ now' = now) =>
        LET k == last'.key
            available ==
                /\ \E r \in vault_bundle :
                       r.key = k /\ r.task_status = "done"
                /\ k \in cache
        IN  /\ last'.ret # NULL <=> available
            /\ last'.ok <=> available
            /\ available =>
                   /\ last'.ret = k
                   /\ vault_bundle' =
                          {IF r.key = k THEN [r EXCEPT !.ts_last_access = now]
                                        ELSE r : r \in vault_bundle}
            /\ ~available => vault_bundle' = vault_bundle
            /\ cache' = cache
            /\ vault_notif_email' = vault_notif_email
            /\ cooker' = cooker]_vars

\* a fetch at time 1 has returned the blob of a bundle created at time 0
C29_Witness ==
    /\ last.op = "fetch" /\ last.ok /\ last.ret = last.key
    /\ last.key \in cache
    /\ \E r \in vault_bundle :
           /\ r.key = last.key /\ r.task_status = "done"
           /\ r.ts_created = 0 /\ r.ts_last_access = 1

\* the directories and contents below directory d, d included, submodule
\* entries left aside
RECURSIVE DirectorySubtree(_, _)
DirectorySubtree(d, submodule) ==
    LET entries == DirectoryEntries(d, submodule)
    IN  {d} \cup UNION {IF entries[i].type = "file" THEN {entries[i].target}
                         ELSE IF entries[i].type = "dir"
                         THEN DirectorySubtree(entries[i].target, submodule)
                         ELSE {} : i \in DOMAIN entries}

\* the directories and contents of the history of revision r
HistoryTrees(r, submodule) ==
    UNION {DirectorySubtree(RevisionDirectory(a), submodule) :
               a \in RevisionAncestors(r)}

\* the cooker of task n has a root of the given type that is in storage
RootInStorage(n, obj_type) ==
    /\ cooker[n].obj_type = obj_type
    /\ cooker[n].obj_id \in GitRevisions \cup GitDirectories
                             \cup GitReleases \cup GitSnapshots

\* C25: for a revision root in storage (all contents visible), after
\* prepare_bundle the revision objects written are exactly the transitive
\* ancestors of the root, the root included, and the directory subtree of
\* each of them is written, without an exception, with a graph service or
\* without.
C25_RevisionHistoryExactly ==
    \A n \in DOMAIN cooker :
        (/\ cooker[n].prepared
         /\ RootInStorage(n, "revision")
         /\ cooker[n].content_status = "visible") =>
            /\ cooker[n].bundle.exc = NULL
            /\ cooker[n].bundle.written \cap GitRevisions
                   = RevisionAncestors(cooker[n].obj_id)
            /\ HistoryTrees(cooker[n].obj_id, cooker[n].submodule)
                   \subseteq cooker[n].bundle.written

\* content c1 is below the root of the cooker of task n
FilteredContentReachable(n) ==
    \/ /\ RootInStorage(n, "revision")
       /\ "c1" \in HistoryTrees(cooker[n].obj_id, cooker[n].submodule)
    \/ /\ RootInStorage(n, "directory")
       /\ "c1" \in DirectorySubtree(cooker[n].obj_id, cooker[n].submodule)

\* C26: when content c1 is filtered (hidden, absent or missing) and is
\* reachable from the root, prepare_bundle raises nothing and writes no
\* object under the id of c1, and the cook() run, once over, has left the
\* bundle in status done.
C26_FilteredContentSkipped ==
    \A n \in DOMAIN cooker :
        (cooker[n].content_status # "visible" /\ FilteredContentReachable(n)) =>
            /\ cooker[n].prepared =>
                   /\ cooker[n].bundle.exc = NULL
                   /\ "c1" \notin cooker[n].bundle.written
            /\ CookEnded(n) =>
                   \A r \in task_info(vault_bundle, cooker[n].key) :
                       r.task_status = "done"

\* the revision a release leads to, through releases
ReleaseRevision(x) == "r1"

\* the releases from release x to its revision, x included
ReleaseChain(x) == IF x = "t2" THEN {"t2", "t1"} ELSE {"t1"}

\* C27: the git-bare cooker accepts a root of every type that is in
\* storage: check_exists answers true and prepare_bundle raises neither
\* NotImplementedError nor AssertionError; for a release root the release
\* and the releases it leads through are written, and so is the history
\* of the revision they lead to.
C27_EveryRootType ==
    \A n \in DOMAIN cooker :
        (\E obj_type \in {"revision", "directory", "snapshot", "release"} :
             RootInStorage(n, obj_type)) =>
            /\ cooker[n].exists \in {NULL, "True"}
            /\ cooker[n].prepared =>
                   /\ cooker[n].bundle.exc
                          \notin {"NotImplementedError", "AssertionError"}
                   /\ cooker[n].obj_type = "release" =>
                          /\ ReleaseChain(cooker[n].obj_id)
                                 \subseteq cooker[n].bundle.written
                          /\ RevisionAncestors(ReleaseRevision(cooker[n].obj_id))
                                 \subseteq cooker[n].bundle.written

\* C28: a row left in status new without a task handle does not stay
\* orphaned: when a cook_request for its key returns while no other call
\* is under way, the row of the key that is in status new has the handle of
\* an enqueued task of that key.
C28_OrphanReenqueued ==
    [][\A c \in Clients :
          (/\ client[c].op = "cook_request" /\ client[c].pc = "return"
           /\ client'[c].pc = "idle"
           /\ \A d \in Clients \ {c} : client[d].pc = "idle") =>
              \A r \in RowsOfCall(vault_bundle', c) :
                  r.task_status = "new" =>
                      /\ r.task_id \in DOMAIN cooker'
                      /\ cooker'[r.task_id].key = r.key]_vars

\* C7: a cook_request that returns: without an email it sends and queues
\* nothing; with an email, if the row was done when the request was made,
\* it sends exactly one success mail to that address and adds no entry;
\* in every other case it adds exactly one entry, for that address and the
\* bundle's row, and sends no mail.
C7_CookRequestEmail ==
    [][(last'.op = "cook_request" /\ last'.ok) =>
        LET k    == last'.key
            e    == last'.email
            info == task_info(vault_bundle, k)
        IN  IF e = NULL
            THEN sent' = <<>> /\ vault_notif_email' = vault_notif_email
            ELSE IF info # {} /\ \A r \in info : r.task_status = "done"
            THEN /\ sent' = <<[to |-> e, subject |-> "Bundle ready",
                               key |-> k, progress_msg |-> NULL]>>
                 /\ vault_notif_email' = vault_notif_email
            ELSE /\ sent' = <<>>
                 /\ \E n \in vault_notif_email' \ vault_notif_email :
                        /\ vault_notif_email' = vault_notif_email \cup {n}
                        /\ n.email = e
                        /\ \E r \in task_info(vault_bundle', k) :
                               n.bundle_id = r.id]_vars

\* a request with an email found its bundle done and mailed the address
C7_Witness ==
    /\ last.op = "cook_request" /\ last.ok /\ last.email # NULL
    /\ Len(sent) = 1
    /\ \E r \in task_info(vault_bundle, last.key) : r.task_status = "done"

\* C8: after send_all_notifications has returned normally for a bundle its
\* notification list is empty, and a second call that follows it directly
\* sends no mail.
C8_ListEmptyAfterSend ==
    [][(last'.op = "send_all_notifications" /\ last'.ok) =>
        /\ NotifsIn(vault_notif_email', vault_bundle', last'.key) = {}
        /\ (last.op = "send_all_notifications" /\ last.ok
              /\ last.key = last'.key) => sent' = <<>>]_vars

\* send_all_notifications returned after mailing two queued entries
C8_Witness ==
    /\ last.op = "send_all_notifications" /\ last.ok
    /\ Len(sent) = 2
    /\ NotifsOf(last.key) = {}

\* C9: send_all_notifications that returns normally on a bundle in status done
\* or failed with n queued entries has sent exactly n mails, one per entry to
\* that entry's address (as often as the address is queued), all of them
\* success mails if the status is done and failure mails if it is failed;
\* it removes these entries and no entry of another bundle.
C9_OneMailPerEntry ==
    [][(last'.op = "send_all_notifications" /\ last'.ok) =>
        LET k == last'.key
            E == NotifsIn(vault_notif_email, vault_bundle, k)
        IN  \A r \in task_info(vault_bundle, k) :
                r.task_status \in {"done", "failed"} =>
                    /\ Len(sent') = Cardinality(E)
                    /\ \A a \in Emails :
                           CountTo(sent', a)
                               = Cardinality({x \in E : x.email = a})
                    /\ \A i \in DOMAIN sent' :
                           /\ sent'[i].key = k
                           /\ sent'[i].subject =
                                  IF r.task_status = "done"
                                  THEN "Bundle ready" ELSE "Bundle failed"
                    /\ vault_notif_email' = vault_notif_email \ E]_vars

\* two entries with the same address were mailed for a failed bundle while an
\* entry of another bundle stayed queued
C9_Witness ==
    /\ last.op = "send_all_notifications" /\ last.ok
    /\ Len(sent) = 2
    /\ sent[1].to = sent[2].to
    /\ sent[1].subject = "Bundle failed"
    /\ vault_notif_email # {}

\* C10: when the notifier fails during send_all_notifications for a done
\* bundle, the bundle stays done and only entries whose mail was sent are
\* gone: for every address, as many entries were removed as mails went out
\* to it, and nothing else was removed or added.
C10_UnsentEntriesStay ==
    [][(last'.op = "send_all_notifications" /\ ~last'.ok) =>
        LET k       == last'.key
            removed == vault_notif_email \ vault_notif_email'
        IN  \A r \in task_info(vault_bundle, k) :
                r.task_status = "done" =>
                    /\ r \in vault_bundle'
                    /\ vault_notif_email' \subseteq vault_notif_email
                    /\ removed \subseteq
                           NotifsIn(vault_notif_email, vault_bundle, k)
                    /\ \A a \in Emails :
                           Cardinality({x \in removed : x.email = a})
                               = CountTo(sent', a)]_vars

\* the notifier failed after one mail of a done bundle had gone out: the
\* entry of the failed send is still queued
C10_Witness ==
    /\ last.op = "send_all_notifications" /\ ~last.ok
    /\ Len(sent) = 1
    /\ NotifsOf(last.key) # {}
    /\ \E r \in task_info(vault_bundle, last.key) : r.task_status = "done"

\* C38: eviction never removes a bundle that is still being produced: no
\* call of cache_expire_oldest or cache_expire_until, whatever n, date and
\* column it is given, removes a row whose status is new or pending.
C38_EvictionSparesRunning ==
    [][ExpireStep =>
        \A r \in vault_bundle :
            r.task_status \in {"new", "pending"} => r \in vault_bundle']_vars

\* the tasks enqueued for key k, and the calls about to enqueue one
TasksOf(k) == {t \in DOMAIN cooker : cooker[t].key = k}
SendingFor(k) == {c \in Clients : client[c].pc = "send_task" /\ client[c].key = k}

\* an upper bound of the number of rows ever created for key k: the rows
\* created so far (the serial's value) less the present rows of other keys
RowsCreated(k) ==
    (next_bundle_id - 1) - Cardinality({r \in vault_bundle : r.key # k})

\* C36: under any interleaving of cook_request and create_task calls, the
\* tasks enqueued for a key, together with the calls that are about to
\* enqueue one, never outnumber the rows ever created for the key; and a
\* cook_request that is about to enqueue a task is one that found no row
\* or a failed row, never a row in status new, pending or done.
C36_TasksAtMostRows ==
    /\ \A k \in {cooker[t].key : t \in DOMAIN cooker}
                   \cup {client[c].key : c \in Clients} :
           Cardinality(TasksOf(k)) + Cardinality(SendingFor(k))
               <= RowsCreated(k)
    /\ \A c \in Clients :
           (client[c].op = "cook_request" /\ client[c].pc = "send_task")
               => client[c].info = {}

\* a cook_request lost the creation race to the other client: it ended with
\* the unique constraint's error, and the key has one row and one task
C36_Witness ==
    /\ \E c \in Clients :
           /\ client[c].op = "cook_request" /\ client[c].pc = "idle"
           /\ client[c].exc = "UniqueViolation"
           /\ Cardinality(TasksOf(client[c].key)) = 1
           /\ Cardinality(task_info(vault_bundle, client[c].key)) = 1
    /\ next_bundle_id = 2

\* C34: during one git-bare run no object file is written twice: after
\* prepare_bundle, no object id occurs more than once among the calls of
\* write_object, whatever the paths along which the object is reached.
C34_ObjectWrittenOnce ==
    \A n \in DOMAIN cooker :
        cooker[n].prepared =>
            \A i, j \in DOMAIN cooker[n].bundle.writes :
                cooker[n].bundle.writes[i] = cooker[n].bundle.writes[j]
                    => i = j

\* C31: cursor() reconnects up to three times before surfacing the error.
\* When every failed statement is followed by a reconnection that hands out
\* a connection, a call whose connection works at once or after the first,
\* second or third reconnection returns a usable cursor without raising;
\* a call whose connection works after none of them raises the connection
\* error; and no call reconnects more than three times.
C31_CursorReconnectsThrice ==
    \A c \in Clients :
        (client[c].op = "cursor" /\ client[c].detects /\ ~client[c].refuses) =>
            /\ client[c].connects <= 3
            /\ client[c].pc \in {"returned", "raised"} =>
                   IF client[c].heal_at <= 3
                   THEN client[c].pc = "returned" /\ client[c].cur
                   ELSE client[c].pc = "raised"
                        /\ client[c].exc = "OperationalError"

\* the content the filter is to give for a file entry whose status is
\* visible, absent or hidden and whose fetch does not fail
FilteredContent(file_data) ==
    IF file_data.status = "absent" THEN SKIPPED_MESSAGE
    ELSE IF file_data.status = "hidden" THEN HIDDEN_MESSAGE
    ELSE IF file_data.fetch = "None" THEN MISSING_MESSAGE
    ELSE "data"

\* C35: for every file entry that has been handled, with status visible,
\* absent or hidden and a fetch that does not fail, the content filter
\* raised nothing and gave the stored bytes (visible, data fetched), the
\* skipped-for-size message (absent), the hidden message (hidden) or the
\* MISSING marker (visible, fetch returned null).
C35_ContentFilter ==
    \A n \in DOMAIN cooker :
        \A i \in DOMAIN cooker[n].files :
            (/\ cooker[n].worker[i].pc # "submitted"
             /\ cooker[n].files[i].status \in {"visible", "absent", "hidden"}
             /\ cooker[n].files[i].fetch # "error"
             /\ cooker[n].files[i].write_ok) =>
                /\ cooker[n].worker[i].exc = NULL
                /\ cooker[n].worker[i].content
                       = FilteredContent(cooker[n].files[i])

\* C40: _create_files of to_disk.py returns only after every worker has
\* finished, and build() returns normally only if no worker raised: when
\* it has returned, every worker is done without an exception and every
\* file is written.
C40_WorkerErrorsPropagate ==
    \A n \in DOMAIN cooker :
        (cooker[n].builder = "to_disk" /\ cooker[n].pc = "returned") =>
            /\ \A i \in DOMAIN cooker[n].files :
                   /\ cooker[n].worker[i].pc = "done"
                   /\ cooker[n].worker[i].exc = NULL
            /\ cooker[n].written = DOMAIN cooker[n].files

\* C39: the sticky flag of a row is fixed at creation: no step, whether a
\* cook_request with any sticky argument on a key that has a row, a
\* set_status, a set_progress, a fetch, an upload or a notification,
\* changes the sticky flag of a row that is there before and after it.
C39_StickyFixed ==
    [][\A r \in vault_bundle : \A r2 \in vault_bundle' :
          r.id = r2.id => r2.sticky = r.sticky]_vars

\* a cook_request with sticky = true has just returned for a key whose
\* row, done and not sticky, was there before: the row is still not sticky
C39_Witness ==
    /\ last.op = "cook_request" /\ last.ok
    /\ client[1].op = "cook_request" /\ client[1].sticky
    /\ \E r \in task_info(vault_bundle, client[1].key) :
           r.task_status = "done" /\ ~r.sticky

\* the step is made by the cook() run of task t
RunStep(t) ==
    /\ t \in DOMAIN cooker'
    /\ cooker'[t] # cooker[t]

\* C37: the callbacks of a cooking run leave alone the row of a later
\* request: a step of the run of task t changes no row whose task is not t
\* (a row re-created by a retry keeps its status and progress until its own
\* task starts) and neither removes nor adds notification entries of such
\* a row.
C37_LateCallbacksSpareNewRow ==
    [][\A t \in DOMAIN cooker :
          RunStep(t) =>
              \A r \in vault_bundle :
                  r.task_id # t =>
                      /\ r \in vault_bundle'
                      /\ {n \in vault_notif_email' : n.bundle_id = r.id}
                             = {n \in vault_notif_email : n.bundle_id = r.id}]_vars


\* positions of the commit command of a revision in a stream
CommitsOf(out, rev) == {i \in DOMAIN out : out[i].cmd = "commit" /\ out[i].rev = rev}

\* a reset command stands before position i with only blob commands between
ResetBefore(out, i) ==
    \E j \in 1..(i - 1) :
        /\ out[j].cmd = "reset"
        /\ \A k \in (j + 1)..(i - 1) : out[k].cmd = "blob"

\* C32: for a revision log closed under parents the exported stream is
\* topologically sorted: every revision is sorted once and after all its
\* parents, the from and merge marks of a commit command are the marks of
\* commit commands of its parents earlier in the stream, a reset command
\* stands before each commit without parents and before no other commit,
\* and the finished stream holds one commit command per revision
C32_TopologicalStream ==
    \A n \in DOMAIN cooker :
        LET t == cooker[n]
            out == t.g.out
            sorted == t.rev_sorted
        IN  /\ t.pc \in {"export", "done"} =>
                   /\ \A r \in DOMAIN t.log.parents :
                          Cardinality({i \in DOMAIN sorted : sorted[i] = r}) = 1
                   /\ \A i \in DOMAIN sorted :
                          \A p \in DOMAIN t.log.parents[sorted[i]] :
                              \E j \in 1..(i - 1) : sorted[j] = t.log.parents[sorted[i]][p]
            /\ \A i \in DOMAIN out :
                   out[i].cmd = "commit" =>
                       LET ps == t.log.parents[out[i].rev]
                           earlier(p, m) ==
                               \E j \in 1..(i - 1) : j \in CommitsOf(out, p) /\ out[j].mark = m
                       IN  /\ ps = <<>> => out[i].from_ = 0 /\ out[i].merges = <<>>
                           /\ ps # <<>> =>
                                  /\ earlier(ps[1], out[i].from_)
                                  /\ Len(out[i].merges) = Len(ps) - 1
                                  /\ \A m \in DOMAIN out[i].merges :
                                         earlier(ps[m + 1], out[i].merges[m])
                           /\ ResetBefore(out, i) <=> ps = <<>>
            /\ t.pc = "done" =>
                   \A r \in DOMAIN t.log.parents : Cardinality(CommitsOf(out, r)) = 1

\* a finished export of a merge of two unrelated histories whose log lists
\* the merge first
C32_Witness ==
    \E n \in DOMAIN cooker :
        LET t == cooker[n]
        IN  /\ t.pc = "done"
            /\ Len(t.log.order) = 3
            /\ Len(t.log.parents[t.log.order[1]]) = 2
            /\ t.log.parents[t.log.order[1]][1] # t.log.parents[t.log.order[1]][2]
            /\ Cardinality({i \in DOMAIN t.g.out : t.g.out[i].cmd = "reset"}) = 2
            /\ \E i \in DOMAIN t.g.out :
                   t.g.out[i].cmd = "commit" /\ Len(t.g.out[i].merges) = 1


\* the files of a directory and of the directories below it, by path
RECURSIVE TreeFiles(_, _)
TreeFiles(dir_id, root) ==
    LET ents == get_dir_ents(dir_id)
    IN  UNION {IF ents[i].type = "file"
               THEN {[path |-> Append(root, ents[i].name), sha1 |-> ents[i].sha1,
                      perms |-> ents[i].perms]}
               ELSE TreeFiles(ents[i].target, Append(root, ents[i].name))
               : i \in DOMAIN ents}

\* the paths of the directories below a directory
RECURSIVE TreeDirs(_, _)
TreeDirs(dir_id, root) ==
    LET ents == get_dir_ents(dir_id)
    IN  UNION {IF ents[i].type = "dir"
               THEN {Append(root, ents[i].name)}
                        \cup TreeDirs(ents[i].target, Append(root, ents[i].name))
               ELSE {}
               : i \in DOMAIN ents}

IsPrefix(p, q) == Len(p) <= Len(q) /\ SubSeq(q, 1, Len(p)) = p

\* the content a mark stands for: the data of the blob command that set it
BlobData(out, m) ==
    out[CHOOSE i \in DOMAIN out : out[i].cmd = "blob" /\ out[i].mark = m].data

\* git fast-import on a set of files: filedelete removes a path and all
\* below it, filemodify sets the file at a path
RECURSIVE ApplyFileCommands(_, _, _)
ApplyFileCommands(files, cmds, out) ==
    IF cmds = <<>> THEN files
    ELSE LET c == Head(cmds)
             kept == {f \in files : ~IsPrefix(c.path, f.path)}
         IN  ApplyFileCommands(
                 IF c.cmd = "filedelete" THEN kept
                 ELSE kept \cup {[path |-> c.path, sha1 |-> BlobData(out, c.dataref),
                                  perms |-> c.mode]},
                 Tail(cmds), out)

\* the directories of an imported tree: those that hold a file
ImportedDirs(files) ==
    UNION {{SubSeq(f.path, 1, k) : k \in 1..(Len(f.path) - 1)} : f \in files}

\* C33: applying the file commands of a commit command to the tree of the
\* first parent of its revision (the empty tree for a root) yields exactly
\* the files and the directories of the tree of the revision
C33_FileCommandsRebuildTree ==
    \A n \in DOMAIN cooker :
        LET t == cooker[n]
            out == t.g.out
        IN  \A i \in DOMAIN out :
                out[i].cmd = "commit" =>
                    LET ps == t.log.parents[out[i].rev]
                        base == IF ps = <<>> THEN {}
                                ELSE TreeFiles(t.log.directory[ps[1]], <<>>)
                        files == ApplyFileCommands(base, out[i].files, out)
                        cur_dir == t.log.directory[out[i].rev]
                    IN  /\ files = TreeFiles(cur_dir, <<>>)
                        /\ ImportedDirs(files) = TreeDirs(cur_dir, <<>>)

====
